---- MODULE Spec2Model ----
(***************************************************************************)
(* svelte-webext-stores: synchronized stores (stores/sync-store.ts), the   *)
(* store handler webExtStores (web-ext-stores.ts) and the storageLegacy    *)
(* backend (storage/legacy.ts), as a state machine.                        *)
(*                                                                         *)
(* Every async function is cut at its awaits: one step runs the code from  *)
(* one await to the next.  A backend read happens when backend.get is      *)
(* called and its result is used at the next step; a backend write and the *)
(* listeners it calls happen in the step after backend.set was called.     *)
(***************************************************************************)
EXTENDS Integers, Sequences, FiniteSets, TLC

\* ------------------------------------------------------------------ bounds
MaxStores == 2      \* store instances created through addSyncStore
MaxTasks  == 2      \* store calls in flight at the same time
MaxCalls  == 4      \* calls made in one run by an application that awaits them
MaxOverlappingCalls == 3   \* calls made in one run when calls may overlap
MaxTrace  == 3      \* completed calls remembered in trace
MaxRuns   == 3      \* subscriber invocations remembered per store
MaxFaultyCalls == 3 \* calls made in one run against a backend that may reject
MaxRaceCalls == 3   \* calls made in one run when overlapping calls are recorded
MaxAdminCalls == 3  \* calls made in one run that may use cleanUp and _clear
MaxGuardCalls == 3  \* calls made in one run with the handlers that compare oldValue
MaxLookupCalls == 4 \* calls made in one run on lookup stores
MaxThrowCalls == 5  \* calls made in one run with a subscriber that throws
MaxJsonCalls == 3   \* calls made in one run that may use exportJson and importJson
MaxEcho == 2        \* backend.set calls of listeners waiting at the same time

\* ------------------------------------------------------------------ values
Undefined == 0                      \* JavaScript undefined: no value
Null      == <<>>                   \* storage.getItem of a key that is not stored
Vals      == {1, 2}                 \* values the application stores
NoStore   == 0                      \* Map.get miss in the handler's stores map
Rejected  == -1                     \* outcome of a call whose promise was rejected

\* migrate callbacks the application supplies (tests: v => `x${v}`)
MigrateFns == {"x", "y"}
migrate(fn, oldValue) == IF fn = "x" THEN oldValue + 10 ELSE oldValue + 20

\* JSON.stringify / JSON.parse of storageLegacy: storage holds text
Stringify(value) == <<"json", value>>
Parse(text)      == text[2]

\* -------------------------------------------------------------------- keys
\* Keys are strings, modelled as sequences of characters.
seperator == <<"$", "$">>
BaseKeys  == {<<"k">>}
Versions  == {0, 1}

Digit(n) == CASE n = 0 -> "0" [] n = 1 -> "1" [] n = 2 -> "2" [] OTHER -> "9"
\* Number.prototype.toString inside a template literal
VersionString(n) == IF n < 0 THEN <<"-", Digit(-n)>> ELSE <<Digit(n)>>

NoOptions == [versioned |-> FALSE, version |-> 0, migrations |-> <<>>]

\* key = `${keyPure}${seperator}${version}` when versionedOptions is given
EffectiveKey(keyPure, versionedOptions) ==
    IF versionedOptions.versioned
    THEN keyPure \o seperator \o VersionString(versionedOptions.version)
    ELSE keyPure

\* faulty variant: the unversioned sentinel is applied to every old version
OldKey_AlwaysPlain(keyPure, oldVersion) == keyPure

\* oldKey of one migration entry
OldKey(keyPure, oldVersion) ==
    IF oldVersion = -1 THEN keyPure
    ELSE keyPure \o seperator \o VersionString(oldVersion)

AllKeys == BaseKeys \cup
           {b \o seperator \o VersionString(v) : b \in BaseKeys, v \in Versions}

\* versionedOptions the application may pass to addSyncStore
VersionedOptionsSet ==
    {NoOptions,
     [versioned |-> TRUE, version |-> 0, migrations |-> <<>>],
     [versioned |-> TRUE, version |-> 1,
      migrations |-> << <<-1, "x">>, <<0, "y">> >>]}

Registries == {"A", "B"}            \* webExtStores(backend) instances

\* storageLegacy, storageMV2/storageMV3 (chrome.storage), storageWebExt
\* (browser.storage)
BackendKinds == {"legacy", "chrome", "webExt"}

\* Array/trace window: keep the last n elements
Last(seq, n) == IF Len(seq) <= n THEN seq ELSE SubSeq(seq, Len(seq) - n + 1, Len(seq))

\* ------------------------------------------------------------------- state
VARIABLES
    storage,     \* window.sessionStorage: key -> JSON text, Null when absent
    stores,      \* per handler: the stores Map, key -> store id (NoStore: none)
    ss,          \* the syncStore closures created so far, in creation order
    tasks,       \* the async store calls in flight
    trace,       \* the last completed calls, recorded when calls are awaited
    changes,     \* the change the backend passed to its callbacks in this step
    calls,       \* calls made so far
    sequential,  \* the application awaits every call before the next one
    rejecting,   \* the backend may reject a call (chrome.runtime.lastError)
    limit,       \* the number of calls the application makes in this run
    recording,   \* completed calls are remembered in trace
    backend,     \* the kind of storage backend the handlers were given
    callbacks,   \* the handlers whose listener the backend still calls
    guard,       \* the handlers' listener compares oldValue and calls store.set
    echo,        \* the backend.set calls made by listeners and not yet written
    objects,     \* the stores are lookup stores: their values are objects
    heap,        \* the properties of the objects created so far, by reference
    stuck        \* a subscriber threw inside store.set: svelte's queue stays filled

vars == <<storage, stores, ss, tasks, trace, changes, calls, sequential, rejecting,
         limit, recording, backend, callbacks, guard, echo, objects, heap, stuck>>

Idle == [op |-> "idle"]
\* the properties of the records lookup stores hold, and the record the
\* application passes as default
Props == {"a", "b"}
RecordDefaults == {[a |-> 1, b |-> 1]}
\* what the storage area may hold of a record when the page starts
PriorRecords == {Null, Stringify([a |-> 2, b |-> 2])}
NoChanges == [key |-> <<>>, oldValue |-> Undefined, newValue |-> Undefined, io |-> {}]
\* what the storage area may hold when the page starts
PriorContents == {Null, Stringify(2)}
TaskIds == 1..MaxTasks
StoreIds == 1..Len(ss)
NoTaskInFlight == \A t \in TaskIds : tasks[t] = Idle
FreeTask(t) == tasks[t] = Idle /\ \A u \in TaskIds : u < t => tasks[u] # Idle
MayCall == calls < limit /\ (sequential => NoTaskInFlight)

\* a completed call, as the application saw it
Completed(entry) ==
    trace' = IF recording THEN Last(Append(trace, entry), MaxTrace) ELSE trace

\* --------------------------------------------------------- storageLegacy
\* get: storage.getItem, null -> undefined, else JSON.parse
BackendGet(st, key) == IF st[key] = Null THEN Undefined ELSE Parse(st[key])

\* what JSON.stringify writes of a value: of an object, its properties
Content(value) == IF objects THEN heap[value] ELSE value

\* set: storage.setItem(key, JSON.stringify(value))
BackendSetItem(st, key, value) == [st EXCEPT ![key] = Stringify(Content(value))]

\* what JSON.parse makes of an item read: of an object's text, a new object
Parsed(st, key) ==
    IF objects /\ st[key] # Null THEN Len(heap) + 1 ELSE BackendGet(st, key)

\* the objects after JSON.parse has made one of the item read
Allocated(st, key) ==
    IF objects /\ st[key] # Null THEN Append(heap, Parse(st[key])) ELSE heap

\* remove: storage.removeItem(key); no callback is called
BackendRemove(st, key) == [st EXCEPT ![key] = Null]

\* ------------------------------------------------------------- syncStore
\* the subscriber's handler is called with value
run(s, value) ==
    [s EXCEPT !.runs = Last(Append(@, value), MaxRuns), !.ran = ~@]

\* the values a subscriber that throws does not accept
Unwelcome == {2}

\* store.set(value) calls a subscriber that throws: the exception leaves
\* setStore before currentValue = value
Throws(s, value) ==
    /\ s.subscribed /\ s.throws /\ ~stuck
    /\ value # s.currentValue
    /\ value \in Unwelcome

\* setStore: store.set(value) (the svelte writable calls its subscribers when
\* the value differs from the one it holds); currentValue = value
setStore(s, value) ==
    IF s.subscribed /\ value # s.currentValue /\ ~stuck
    THEN IF Throws(s, value)
         THEN run(s, value)
         ELSE run([s EXCEPT !.currentValue = value], value)
    ELSE [s EXCEPT !.currentValue = value]

\* setRaw: if (value === currentValue) return; setStore(value)
setRaw(s, value) == IF value = s.currentValue THEN s ELSE setStore(s, value)

\* faulty variant: setRaw pushes the value to the backend the way set does
setRawIo_Push(s, value) ==
    IF value = s.currentValue THEN {} ELSE {<<"set", s.key>>}

\* the backend calls setRaw makes: none, it calls setStore only
setRawIo(s, value) == {}

\* ---------------------------------------------------------- webExtStores
\* the key under which addSyncStore puts the new store into the stores Map
RegisteredKey(key, versionedOptions) == key

\* faulty variant: the listener does not look at syncFromExternal
Listener_NoSyncCheck(r, S, key, newValue) ==
    [i \in DOMAIN S |->
        IF stores[r][key] = i THEN setRaw(S[i], newValue) ELSE S[i]]

\* faulty variant: the listener passes the change to every store created
\* with the key, whether the stores Map still holds it or not
Listener_EveryStore(r, S, key, newValue) ==
    [i \in DOMAIN S |->
        IF S[i].keyPure = key /\ S[i].syncFromExternal
        THEN setRaw(S[i], newValue)
        ELSE S[i]]

\* the listener one handler passed to backend.addOnChangedListener
Listener(r, S, key, newValue) ==
    [i \in DOMAIN S |->
        IF stores[r][key] = i /\ S[i].syncFromExternal
        THEN setRaw(S[i], newValue)
        ELSE S[i]]

\* the backend calls one handler's listener makes while it runs
ListenerIo(r, S, key, newValue) ==
    UNION {setRawIo(S[i], newValue) :
              i \in {j \in DOMAIN S : stores[r][key] = j /\ S[j].syncFromExternal}}

\* the listener's test of the handlers that compare oldValue: the change is
\* applied when a store is found, syncFromExternal is set and
\* change.oldValue === result.getCurrent()
Accepts(r, S, key, oldValue) ==
    /\ stores[r][key] # NoStore
    /\ S[stores[r][key]].syncFromExternal
    /\ oldValue = S[stores[r][key]].currentValue

\* faulty variant: the listener applies the change without comparing oldValue
GuardedListener_NoGuard(r, S, key, oldValue, newValue) ==
    [i \in DOMAIN S |->
        IF stores[r][key] = i /\ S[i].syncFromExternal
        THEN setStore(S[i], newValue)
        ELSE S[i]]

\* the listener of the handlers that compare oldValue, on the stores:
\* result.set(change.newValue) calls setStore at once
GuardedListener(r, S, key, oldValue, newValue) ==
    [i \in DOMAIN S |->
        IF stores[r][key] = i /\ Accepts(r, S, key, oldValue)
        THEN setStore(S[i], newValue)
        ELSE S[i]]

\* the backend.set(key, value) that result.set(change.newValue) then calls:
\* storageLegacy.set reads oldValue when it is called
Spawn(r, S, key, oldValue, newValue) ==
    IF Accepts(r, S, key, oldValue)
    THEN <<[s |-> stores[r][key], value |-> newValue,
            old |-> BackendGet(storage', S[stores[r][key]].key)]>>
    ELSE <<>>

\* the listener of one handler throws: result.setRaw(change.newValue) is not
\* inside a try, so what store.set throws leaves the listener (the handlers
\* that compare oldValue call result.set(...).catch and keep it)
ListenerThrows(r, S, key, newValue) ==
    /\ ~guard
    /\ stores[r][key] # NoStore
    /\ S[stores[r][key]].syncFromExternal
    /\ Throws(S[stores[r][key]], newValue)

\* callbacks.forEach(callback => callback({[key]: {oldValue, newValue}})),
\* and the same for the listeners added to storage.onChanged; a callback that
\* throws ends the forEach of storageLegacy.set
Callbacks(S, key, oldValue, newValue) ==
    LET L(r, T) == IF guard THEN GuardedListener(r, T, key, oldValue, newValue)
                   ELSE Listener(r, T, key, newValue)
        a == IF "A" \in callbacks THEN L("A", S) ELSE S
    IN IF /\ "B" \in callbacks
          /\ ~(/\ backend = "legacy" /\ "A" \in callbacks
               /\ ListenerThrows("A", S, key, newValue))
       THEN L("B", a)
       ELSE a

\* one of the callbacks called with the change throws
CallbacksThrow(S, key, newValue) ==
    \/ "A" \in callbacks /\ ListenerThrows("A", S, key, newValue)
    \/ /\ "B" \in callbacks
       /\ ListenerThrows("B", IF "A" \in callbacks
                               THEN Listener("A", S, key, newValue) ELSE S,
                         key, newValue)

\* storageLegacy.set is rejected with what a callback threw: the callbacks
\* are called inside it
Propagates(key, newValue) ==
    backend = "legacy" /\ CallbacksThrow(ss, key, newValue)

\* the backend.set calls the callbacks leave waiting
Echoes(S, key, oldValue, newValue) ==
    LET a == IF "A" \in callbacks
             THEN GuardedListener("A", S, key, oldValue, newValue) ELSE S
    IN IF guard
       THEN (IF "A" \in callbacks THEN Spawn("A", S, key, oldValue, newValue)
             ELSE <<>>) \o
            (IF "B" \in callbacks THEN Spawn("B", a, key, oldValue, newValue)
             ELSE <<>>)
       ELSE <<>>

\* the backend calls the callbacks make while they run
CallbacksIo(S, key, oldValue, newValue) ==
    LET a == IF "A" \in callbacks THEN Listener("A", S, key, newValue) ELSE S
        e == Echoes(S, key, oldValue, newValue)
    IN IF guard
       THEN {<<"set", S[e[n].s].key>> : n \in 1..Len(e)}
       ELSE (IF "A" \in callbacks THEN ListenerIo("A", S, key, newValue) ELSE {}) \cup
            (IF "B" \in callbacks THEN ListenerIo("B", a, key, newValue) ELSE {})

\* whether a set is passed to the callbacks: storageLegacy.set calls them
\* always; storage.onChanged is fired for an item that changed and, depending
\* on the browser, also for an item written with the value it already had
Fired(old, new) ==
    IF backend = "legacy" \/ old # new THEN {TRUE} ELSE {TRUE, FALSE}

\* the callbacks are called with the change (fired), or nothing is called;
\* pending are the listeners' backend.set calls still waiting
Notify(pending, key, oldValue, newValue, fired) ==
    /\ ss' = IF fired THEN Callbacks(ss, key, oldValue, newValue) ELSE ss
    /\ echo' = IF fired THEN pending \o Echoes(ss, key, oldValue, newValue)
               ELSE pending
    /\ Len(echo') <= MaxEcho
    /\ stuck' = (stuck \/ (fired /\ CallbacksThrow(ss, key, newValue)))
    /\ changes' = IF fired /\ callbacks # {}
                  THEN [key |-> key, oldValue |-> oldValue, newValue |-> newValue,
                        io |-> CallbacksIo(ss, key, oldValue, newValue)]
                  ELSE NoChanges

\* the write of backend.set: the item is stored, then the callbacks are called
\* (the storage area is modelled as holding JSON text for every backend kind)
BackendWriteAfter(pending, key, value, oldValue) ==
    /\ storage' = BackendSetItem(storage, key, value)
    /\ \E fired \in Fired(storage[key], Stringify(Content(value))) :
          Notify(pending, key, oldValue, value, fired)

BackendWrite(key, value, oldValue) == BackendWriteAfter(echo, key, value, oldValue)

\* backend.remove(key): storageLegacy calls no callback; storage.onChanged is
\* fired, with no newValue, when the item existed
BackendRemoval(key) ==
    /\ storage' = BackendRemove(storage, key)
    /\ Notify(echo, key, BackendGet(storage, key), Undefined,
              backend # "legacy" /\ storage[key] # Null)

\* faulty variant: currentValue is declared without its initial value
syncStore_Uninitialized(key, defaultValue, syncFromExternal, versionedOptions) ==
    [keyPure          |-> key,
     key              |-> EffectiveKey(key, versionedOptions),
     defaultValue     |-> defaultValue,
     syncFromExternal |-> syncFromExternal,
     versionedOptions |-> versionedOptions,
     currentValue     |-> Undefined,
     isReady          |-> FALSE,
     subscribed       |-> FALSE,
     runs             |-> <<>>,
     ran              |-> FALSE,
     throws           |-> FALSE]

\* syncStore(key, defaultValue, backend, syncFromExternal, versionedOptions)
syncStore(key, defaultValue, syncFromExternal, versionedOptions) ==
    [keyPure          |-> key,
     key              |-> EffectiveKey(key, versionedOptions),
     defaultValue     |-> defaultValue,
     syncFromExternal |-> syncFromExternal,
     versionedOptions |-> versionedOptions,
     currentValue     |-> defaultValue,
     isReady          |-> FALSE,
     subscribed       |-> FALSE,
     runs             |-> <<>>,
     ran              |-> FALSE,
     throws           |-> FALSE]

\* what a call saw when it was made (recorded with the call in trace)
Pre(s) == IF recording
          THEN [storage |-> storage, isReady |-> ss[s].isReady,
                currentValue |-> ss[s].currentValue]
          ELSE <<>>
NoPre == <<>>
\* currentValue when the step a call is in began (kept while calls are recorded)
Was(s) == IF recording THEN ss[s].currentValue ELSE Undefined
\* oldValue as storageLegacy.set reads it when it is called (kept for the
\* handlers that compare it)
Old(key) == IF guard THEN BackendGet(storage, key) ELSE Undefined
\* the backend calls a store call has made (recorded with the call in trace)
Did(t, call, key) == IF recording THEN tasks[t].io \cup {<<call, key>>} ELSE {}

Init ==
    /\ storage \in [AllKeys -> PriorContents]
    /\ stores = [r \in Registries |-> [k \in AllKeys |-> NoStore]]
    /\ ss = <<>>
    /\ tasks = [t \in TaskIds |-> Idle]
    /\ trace = <<>>
    /\ changes = NoChanges
    /\ calls = 0
    /\ sequential = FALSE
    /\ rejecting = FALSE
    /\ limit = MaxOverlappingCalls
    /\ recording = FALSE
    /\ backend = "legacy"
    /\ callbacks = Registries
    /\ guard = FALSE
    /\ echo = <<>>
    /\ objects = FALSE
    /\ heap = <<>>
    /\ stuck = FALSE

\* the same, for an application that awaits each call before the next
InitSeq ==
    /\ storage \in [AllKeys -> PriorContents]
    /\ stores = [r \in Registries |-> [k \in AllKeys |-> NoStore]]
    /\ ss = <<>>
    /\ tasks = [t \in TaskIds |-> Idle]
    /\ trace = <<>>
    /\ changes = NoChanges
    /\ calls = 0
    /\ sequential = TRUE
    /\ rejecting = FALSE
    /\ limit = MaxCalls
    /\ recording = TRUE
    /\ backend = "legacy"
    /\ callbacks = Registries
    /\ guard = FALSE
    /\ echo = <<>>
    /\ objects = FALSE
    /\ heap = <<>>
    /\ stuck = FALSE

\* the same, against a backend whose calls may be rejected
InitFail ==
    /\ storage \in [AllKeys -> PriorContents]
    /\ stores = [r \in Registries |-> [k \in AllKeys |-> NoStore]]
    /\ ss = <<>>
    /\ tasks = [t \in TaskIds |-> Idle]
    /\ trace = <<>>
    /\ changes = NoChanges
    /\ calls = 0
    /\ sequential = TRUE
    /\ rejecting = TRUE
    /\ limit = MaxFaultyCalls
    /\ recording = TRUE
    /\ backend = "legacy"
    /\ callbacks = Registries
    /\ guard = FALSE
    /\ echo = <<>>
    /\ objects = FALSE
    /\ heap = <<>>
    /\ stuck = FALSE

\* calls that may overlap, remembered in the order in which they complete
InitRace ==
    /\ storage \in [AllKeys -> PriorContents]
    /\ stores = [r \in Registries |-> [k \in AllKeys |-> NoStore]]
    /\ ss = <<>>
    /\ tasks = [t \in TaskIds |-> Idle]
    /\ trace = <<>>
    /\ changes = NoChanges
    /\ calls = 0
    /\ sequential = FALSE
    /\ rejecting = FALSE
    /\ limit = MaxRaceCalls
    /\ recording = TRUE
    /\ backend = "legacy"
    /\ callbacks = Registries
    /\ guard = FALSE
    /\ echo = <<>>
    /\ objects = FALSE
    /\ heap = <<>>
    /\ stuck = FALSE

\* the same for an application that awaits its calls and also calls cleanUp
\* and _clear, on any kind of backend
InitAdmin ==
    /\ storage \in [AllKeys -> PriorContents]
    /\ stores = [r \in Registries |-> [k \in AllKeys |-> NoStore]]
    /\ ss = <<>>
    /\ tasks = [t \in TaskIds |-> Idle]
    /\ trace = <<>>
    /\ changes = NoChanges
    /\ calls = 0
    /\ sequential = TRUE
    /\ rejecting = FALSE
    /\ limit = MaxAdminCalls
    /\ recording = TRUE
    /\ backend \in BackendKinds
    /\ callbacks = Registries
    /\ guard = FALSE
    /\ echo = <<>>
    /\ objects = FALSE
    /\ heap = <<>>
    /\ stuck = FALSE

\* the handlers that compare oldValue (web-ext-stores.ts) with the store whose
\* set has no equality check, on storageLegacy, calls overlapping
InitGuard ==
    /\ storage \in [AllKeys -> PriorContents]
    /\ stores = [r \in Registries |-> [k \in AllKeys |-> NoStore]]
    /\ ss = <<>>
    /\ tasks = [t \in TaskIds |-> Idle]
    /\ trace = <<>>
    /\ changes = NoChanges
    /\ calls = 0
    /\ sequential = FALSE
    /\ rejecting = FALSE
    /\ limit = MaxGuardCalls
    /\ recording = FALSE
    /\ backend = "legacy"
    /\ callbacks = Registries
    /\ guard = TRUE
    /\ echo = <<>>
    /\ objects = FALSE
    /\ heap = <<>>
    /\ stuck = FALSE

\* lookup stores (addLookupStore) on storageLegacy, every call awaited
InitLookup ==
    /\ storage \in [AllKeys -> PriorRecords]
    /\ stores = [r \in Registries |-> [k \in AllKeys |-> NoStore]]
    /\ ss = <<>>
    /\ tasks = [t \in TaskIds |-> Idle]
    /\ trace = <<>>
    /\ changes = NoChanges
    /\ calls = 0
    /\ sequential = TRUE
    /\ rejecting = FALSE
    /\ limit = MaxLookupCalls
    /\ recording = TRUE
    /\ backend = "legacy"
    /\ callbacks = Registries
    /\ guard = FALSE
    /\ echo = <<>>
    /\ objects = TRUE
    /\ heap = <<>>
    /\ stuck = FALSE

\* stores without migrations on storageLegacy, every call awaited, with
\* subscribers that may throw
InitThrow ==
    /\ storage \in [AllKeys -> PriorContents]
    /\ stores = [r \in Registries |-> [k \in AllKeys |-> NoStore]]
    /\ ss = <<>>
    /\ tasks = [t \in TaskIds |-> Idle]
    /\ trace = <<>>
    /\ changes = NoChanges
    /\ calls = 0
    /\ sequential = TRUE
    /\ rejecting = FALSE
    /\ limit = MaxThrowCalls
    /\ recording = TRUE
    /\ backend = "legacy"
    /\ callbacks = Registries
    /\ guard = FALSE
    /\ echo = <<>>
    /\ objects = FALSE
    /\ heap = <<>>
    /\ stuck = FALSE

\* stores on storageLegacy, every call awaited, with an application that
\* exports and imports the stores' values
InitJson ==
    /\ storage \in [AllKeys -> PriorContents]
    /\ stores = [r \in Registries |-> [k \in AllKeys |-> NoStore]]
    /\ ss = <<>>
    /\ tasks = [t \in TaskIds |-> Idle]
    /\ trace = <<>>
    /\ changes = NoChanges
    /\ calls = 0
    /\ sequential = TRUE
    /\ rejecting = FALSE
    /\ limit = MaxJsonCalls
    /\ recording = TRUE
    /\ backend = "legacy"
    /\ callbacks = Registries
    /\ guard = FALSE
    /\ echo = <<>>
    /\ objects = FALSE
    /\ heap = <<>>
    /\ stuck = FALSE

\* ------------------------------------------------- calls of the application
\* webExtStores.addSyncStore
addSyncStore(r, key, defaultValue, syncFromExternal, versionedOptions) ==
    /\ MayCall
    /\ Len(ss) < MaxStores
    /\ ss' = Append(ss, syncStore(key, defaultValue, syncFromExternal, versionedOptions))
    /\ stores' = [stores EXCEPT
                    ![r][RegisteredKey(key, versionedOptions)] = Len(ss) + 1]
    /\ calls' = calls + 1
    /\ Completed([op |-> "addSyncStore", s |-> Len(ss) + 1, key |-> key,
                  arg |-> Undefined,
                  ret |-> Undefined, pre |-> NoPre, io |-> {}])
    /\ changes' = NoChanges
    /\ UNCHANGED <<storage, tasks, sequential, rejecting, limit, recording, backend, callbacks, guard, echo, objects, heap, stuck>>

\* backend.set(key, value) called by the application itself
BackendSet(key, value) ==
    /\ MayCall
    /\ BackendWrite(key, value, Old(key))
    /\ calls' = calls + 1
    /\ Completed([op |-> "backend.set", s |-> NoStore, key |-> key, arg |-> value,
                  ret |-> IF Propagates(key, value) THEN Rejected ELSE Undefined,
                  pre |-> NoPre, io |-> {}])
    /\ UNCHANGED <<stores, tasks, sequential, rejecting, limit, recording, backend, callbacks, guard, objects, heap>>

\* faulty variant: set calls backend.set without calling setStore first
SetCall_WriteFirst(t, s, value, op) ==
    /\ MayCall
    /\ FreeTask(t)
    /\ calls' = calls + 1
    /\ tasks' = [tasks EXCEPT ![t] =
           [op |-> op, s |-> s, pc |-> "write", arg |-> value,
            tmp |-> Undefined, i |-> 0, was |-> Was(s), pre |-> NoPre, io |-> {},
            old |-> Old(ss[s].key)]]
    /\ changes' = NoChanges
    /\ UNCHANGED <<storage, stores, ss, trace, sequential, rejecting, limit, recording, backend, callbacks, guard, echo, objects, heap, stuck>>

\* set(value) up to its await: the equality check, setStore, backend.set called
SetCall(t, s, value, op) ==
    /\ MayCall
    /\ FreeTask(t)
    /\ calls' = calls + 1
    /\ IF ~guard /\ value = ss[s].currentValue
       THEN /\ Completed([op |-> op, s |-> s, key |-> ss[s].key, arg |-> value,
                          ret |-> Undefined, pre |-> NoPre, io |-> {}])
            /\ UNCHANGED <<ss, tasks>>
       ELSE /\ ss' = [ss EXCEPT ![s] = setStore(@, value)]
            /\ tasks' = [tasks EXCEPT ![t] =
                   [op |-> op, s |-> s, pc |-> "write", arg |-> value,
                    tmp |-> Undefined, i |-> 0, was |-> Was(s), pre |-> NoPre, io |-> {},
                    old |-> Old(ss[s].key)]]
            /\ UNCHANGED trace
    /\ changes' = NoChanges
    /\ UNCHANGED <<storage, stores, sequential, rejecting, limit, recording, backend, callbacks, guard, echo, objects, heap, stuck>>

set(t, s, value) == SetCall(t, s, value, "set")

\* faulty variant: reset also clears isReady to have the next get pull again
reset_Unready(t, s) ==
    /\ MayCall
    /\ FreeTask(t)
    /\ calls' = calls + 1
    /\ ss' = [ss EXCEPT ![s] = [setStore(@, @.defaultValue) EXCEPT !.isReady = FALSE]]
    /\ tasks' = [tasks EXCEPT ![t] =
           [op |-> "reset", s |-> s, pc |-> "write", arg |-> ss[s].defaultValue,
            tmp |-> Undefined, i |-> 0, was |-> Was(s), pre |-> NoPre, io |-> {},
            old |-> Old(ss[s].key)]]
    /\ changes' = NoChanges
    /\ UNCHANGED <<storage, stores, trace, sequential, rejecting, limit, recording, backend, callbacks, guard, echo, objects, heap, stuck>>

\* reset: await set(defaultValue)
reset(t, s) == SetCall(t, s, ss[s].defaultValue, "reset")

\* the backend write of set, after which set returns
SetWrite(t) ==
    /\ tasks[t] # Idle
    /\ tasks[t].pc = "write"
    /\ BackendWrite(ss[tasks[t].s].key, tasks[t].arg, tasks[t].old)
    /\ tasks' = [tasks EXCEPT ![t] = Idle]
    /\ Completed([op |-> tasks[t].op, s |-> tasks[t].s, key |-> ss[tasks[t].s].key,
                  arg |-> tasks[t].arg,
                  ret |-> IF Propagates(ss[tasks[t].s].key, tasks[t].arg)
                          THEN Rejected ELSE Undefined,
                  pre |-> tasks[t].pre,
                  io |-> Did(t, "set", ss[tasks[t].s].key)])
    /\ UNCHANGED <<stores, calls, sequential, rejecting, limit, recording, backend, callbacks, guard, objects, heap>>

\* ready() up to its first await: the isReady check, then updateFromBackend
\* up to its await of backend.get(key)
ReadyCall(t, s, op, arg, S) ==
    /\ tasks' = [tasks EXCEPT ![t] =
          IF S[s].isReady
          THEN [op |-> op, s |-> s, pc |-> "ready_done", arg |-> arg,
                tmp |-> Undefined, i |-> 0, was |-> Was(s), pre |-> Pre(s), io |-> {},
                old |-> Undefined]
          ELSE [op |-> op, s |-> s, pc |-> "got", arg |-> arg,
                tmp |-> Parsed(storage, S[s].key), i |-> 0, was |-> Was(s),
                pre |-> Pre(s), io |-> {}, old |-> Undefined]]
    /\ heap' = IF S[s].isReady THEN heap ELSE Allocated(storage, S[s].key)
    /\ calls' = calls + 1
    /\ changes' = NoChanges
    /\ UNCHANGED <<storage, stores, trace, sequential, rejecting, limit, recording, backend, callbacks, guard, echo, objects, stuck>>

ready(t, s) ==
    /\ MayCall
    /\ FreeTask(t)
    /\ ReadyCall(t, s, "ready", Undefined, ss)
    /\ UNCHANGED ss

\* get: await ready(); return currentValue
get(t, s) ==
    /\ MayCall
    /\ FreeTask(t)
    /\ ReadyCall(t, s, "get", Undefined, ss)
    /\ UNCHANGED ss

\* faulty variant: store.subscribe(run) registers run without calling it
subscribe_Deferred(t, s) ==
    /\ MayCall
    /\ FreeTask(t)
    /\ ~ss[s].subscribed
    /\ ReadyCall(t, s, "subscribe", Undefined, ss)
    /\ ss' = [ss EXCEPT ![s].subscribed = TRUE]

\* subscribe(run): ready().then(() => run(currentValue)); return
\* store.subscribe(run), which calls run with the writable's value at once
subscribe(t, s) ==
    /\ MayCall
    /\ FreeTask(t)
    /\ ~ss[s].subscribed
    /\ ReadyCall(t, s, "subscribe", Undefined, ss)
    /\ ss' = [ss EXCEPT ![s] = run([@ EXCEPT !.subscribed = TRUE], @.currentValue)]

\* faulty variant: updateFromBackend seeds the default whatever backend.get returned
updateFromBackend_AlwaysSeed(t) ==
    /\ tasks[t] # Idle
    /\ tasks[t].pc = "got"
    /\ tasks' = [tasks EXCEPT ![t].pc = "seed"]
    /\ changes' = NoChanges
    /\ UNCHANGED <<storage, stores, ss, trace, calls, sequential, rejecting, limit, recording, backend, callbacks, guard, echo, objects, heap, stuck>>

\* updateFromBackend after backend.get(key): seed the default or adopt the value
updateFromBackend(t) ==
    /\ tasks[t] # Idle
    /\ tasks[t].pc = "got"
    /\ IF tasks[t].tmp = Undefined
       THEN /\ tasks' = [tasks EXCEPT ![t].pc = "seed",
                                       ![t].old = Old(ss[tasks[t].s].key)]
            /\ UNCHANGED ss
       ELSE /\ ss' = [ss EXCEPT ![tasks[t].s] = setStore(@, tasks[t].tmp)]
            /\ tasks' = [tasks EXCEPT ![t].pc = "updated"]
    /\ changes' = NoChanges
    /\ UNCHANGED <<storage, stores, trace, calls, sequential, rejecting, limit, recording, backend, callbacks, guard, echo, objects, heap, stuck>>

\* faulty variant: updateFromBackend returns without seeding the default
SeedWrite_Skipped(t) ==
    /\ tasks[t] # Idle
    /\ tasks[t].pc = "seed"
    /\ tasks' = [tasks EXCEPT ![t].pc = "updated"]
    /\ changes' = NoChanges
    /\ UNCHANGED <<storage, stores, ss, trace, calls, sequential, rejecting, limit, recording, backend, callbacks, guard, echo, objects, heap, stuck>>

\* the write of backend.set(key, defaultValue) in updateFromBackend
SeedWrite(t) ==
    /\ tasks[t] # Idle
    /\ tasks[t].pc = "seed"
    /\ BackendWrite(ss[tasks[t].s].key, ss[tasks[t].s].defaultValue, tasks[t].old)
    /\ tasks' = [tasks EXCEPT ![t].pc = "updated",
                               ![t].io = Did(t, "set", ss[tasks[t].s].key)]
    /\ UNCHANGED <<stores, trace, calls, sequential, rejecting, limit, recording, backend, callbacks, guard, objects, heap>>

\* ready: the migration loop reaches entry i (backend.get(oldKey) is called)
\* or, after the last entry, isReady = true
MigrationLoop(t, i, S) ==
    LET s == tasks[t].s
        m == S[s].versionedOptions.migrations
    IN IF i <= Len(m)
       THEN /\ tasks' = [tasks EXCEPT ![t].pc = "old_got", ![t].i = i,
                   ![t].was = Was(s),
                   ![t].tmp = BackendGet(storage, OldKey(S[s].keyPure, m[i][1]))]
            /\ ss' = S
       ELSE /\ tasks' = [tasks EXCEPT ![t].pc = "ready_done", ![t].tmp = Undefined]
            /\ ss' = [S EXCEPT ![s].isReady = TRUE]

\* ready resumes after await updateFromBackend()
AfterUpdate(t) ==
    /\ tasks[t] # Idle
    /\ tasks[t].pc = "updated"
    /\ MigrationLoop(t, 1, ss)
    /\ changes' = NoChanges
    /\ UNCHANGED <<storage, stores, trace, calls, sequential, rejecting, limit, recording, backend, callbacks, guard, echo, objects, heap, stuck>>

\* faulty variant: an absent old key is migrated like a stored value
Migrate_NoSkip(t) ==
    /\ tasks[t] # Idle
    /\ tasks[t].pc = "old_got"
    /\ LET s == tasks[t].s
           fn == ss[s].versionedOptions.migrations[tasks[t].i][2]
           newValue == migrate(fn, tasks[t].tmp)
       IN IF newValue = ss[s].currentValue
          THEN /\ tasks' = [tasks EXCEPT ![t].pc = "set_done"]
               /\ UNCHANGED ss
          ELSE /\ ss' = [ss EXCEPT ![s] = setStore(@, newValue)]
               /\ tasks' = [tasks EXCEPT ![t].pc = "mig_write", ![t].arg = newValue]
    /\ changes' = NoChanges
    /\ UNCHANGED <<storage, stores, trace, calls, sequential, rejecting, limit, recording, backend, callbacks, guard, echo, objects, heap, stuck>>

\* ready after backend.get(oldKey): continue, or migrate and call set(newValue)
Migrate(t) ==
    /\ tasks[t] # Idle
    /\ tasks[t].pc = "old_got"
    /\ LET s == tasks[t].s
           fn == ss[s].versionedOptions.migrations[tasks[t].i][2]
           newValue == migrate(fn, tasks[t].tmp)
       IN IF tasks[t].tmp = Undefined
          THEN MigrationLoop(t, tasks[t].i + 1, ss)
          ELSE IF newValue = ss[s].currentValue
          THEN /\ tasks' = [tasks EXCEPT ![t].pc = "set_done"]
               /\ UNCHANGED ss
          ELSE /\ ss' = [ss EXCEPT ![s] = setStore(@, newValue)]
               /\ tasks' = [tasks EXCEPT ![t].pc = "mig_write", ![t].arg = newValue,
                                          ![t].old = Old(ss[s].key)]
    /\ changes' = NoChanges
    /\ UNCHANGED <<storage, stores, trace, calls, sequential, rejecting, limit, recording, backend, callbacks, guard, echo, objects, heap, stuck>>

\* the backend write of the set(newValue) of a migration
MigrationWrite(t) ==
    /\ tasks[t] # Idle
    /\ tasks[t].pc = "mig_write"
    /\ BackendWrite(ss[tasks[t].s].key, tasks[t].arg, tasks[t].old)
    /\ tasks' = [tasks EXCEPT ![t].pc = "set_done",
                               ![t].io = Did(t, "set", ss[tasks[t].s].key)]
    /\ UNCHANGED <<stores, trace, calls, sequential, rejecting, limit, recording, backend, callbacks, guard, objects, heap>>

\* faulty variant: the old key is not removed after the migration
MigrationRemove_Kept(t) ==
    /\ tasks[t] # Idle
    /\ tasks[t].pc = "set_done"
    /\ tasks' = [tasks EXCEPT ![t].pc = "removed"]
    /\ changes' = NoChanges
    /\ UNCHANGED <<storage, stores, ss, trace, calls, sequential, rejecting, limit, recording, backend, callbacks, guard, echo, objects, heap, stuck>>

\* ready resumes after await set(newValue): backend.remove(oldKey)
MigrationRemove(t) ==
    /\ tasks[t] # Idle
    /\ tasks[t].pc = "set_done"
    /\ LET s == tasks[t].s
           oldVersion == ss[s].versionedOptions.migrations[tasks[t].i][1]
       IN /\ BackendRemoval(OldKey(ss[s].keyPure, oldVersion))
          /\ tasks' = [tasks EXCEPT ![t].pc = "removed",
                ![t].io = Did(t, "remove", OldKey(ss[s].keyPure, oldVersion))]
    /\ UNCHANGED <<stores, trace, calls, sequential, rejecting, limit, recording, backend, callbacks, guard, objects, heap>>

\* faulty variant: the migration loop ends after the first entry it migrated
AfterRemove_Stop(t) ==
    /\ tasks[t] # Idle
    /\ tasks[t].pc = "removed"
    /\ MigrationLoop(t, Len(ss[tasks[t].s].versionedOptions.migrations) + 1, ss)
    /\ changes' = NoChanges
    /\ UNCHANGED <<storage, stores, trace, calls, sequential, rejecting, limit, recording, backend, callbacks, guard, echo, objects, heap, stuck>>

\* ready resumes after await backend.remove(oldKey): next entry of the loop
AfterRemove(t) ==
    /\ tasks[t] # Idle
    /\ tasks[t].pc = "removed"
    /\ MigrationLoop(t, tasks[t].i + 1, ss)
    /\ changes' = NoChanges
    /\ UNCHANGED <<storage, stores, trace, calls, sequential, rejecting, limit, recording, backend, callbacks, guard, echo, objects, heap, stuck>>

\* the caller of ready resumes: ready returns, get returns currentValue,
\* subscribe's then-callback calls run(currentValue)
ReadyDone(t) ==
    /\ tasks[t] # Idle
    /\ tasks[t].pc = "ready_done"
    /\ tasks[t].op \in {"ready", "get", "subscribe"}
    /\ LET s == tasks[t].s
       IN /\ ss' = IF tasks[t].op = "subscribe"
                   THEN [ss EXCEPT ![s] = run(@, @.currentValue)]
                   ELSE ss
          /\ Completed([op |-> tasks[t].op, s |-> s, key |-> ss[s].key,
                        arg |-> Undefined,
                        ret |-> IF tasks[t].op = "get" THEN ss[s].currentValue
                                ELSE Undefined,
                        pre |-> tasks[t].pre, io |-> tasks[t].io])
    /\ tasks' = [tasks EXCEPT ![t] = Idle]
    /\ changes' = NoChanges
    /\ UNCHANGED <<storage, stores, calls, sequential, rejecting, limit, recording, backend, callbacks, guard, echo, objects, heap, stuck>>

Defaults == {1}

Next ==
    \/ \E r \in (IF ss = <<>> THEN {"A"} ELSE Registries), key \in BaseKeys, d \in Defaults, e \in BOOLEAN,
          vo \in VersionedOptionsSet : addSyncStore(r, key, d, e, vo)
    \/ \E key \in AllKeys, value \in Vals : BackendSet(key, value)
    \/ \E t \in TaskIds, s \in StoreIds, value \in Vals : set(t, s, value)
    \/ \E t \in TaskIds, s \in StoreIds : reset(t, s)
    \/ \E t \in TaskIds, s \in StoreIds : ready(t, s)
    \/ \E t \in TaskIds, s \in StoreIds : get(t, s)
    \/ \E t \in TaskIds, s \in StoreIds : subscribe(t, s)
    \/ \E t \in TaskIds : SetWrite(t)
    \/ \E t \in TaskIds : updateFromBackend(t)
    \/ \E t \in TaskIds : SeedWrite(t)
    \/ \E t \in TaskIds : AfterUpdate(t)
    \/ \E t \in TaskIds : Migrate(t)
    \/ \E t \in TaskIds : MigrationWrite(t)
    \/ \E t \in TaskIds : MigrationRemove(t)
    \/ \E t \in TaskIds : AfterRemove(t)
    \/ \E t \in TaskIds : ReadyDone(t)

\* faulty variant: a rejected backend.set makes set restore the previous value
SetRejected_RollsBack(t) ==
    /\ rejecting
    /\ tasks[t] # Idle
    /\ tasks[t].pc = "write"
    /\ tasks' = [tasks EXCEPT ![t] = Idle]
    /\ ss' = [ss EXCEPT ![tasks[t].s] = setStore(@, tasks[t].was)]
    /\ Completed([op |-> tasks[t].op, s |-> tasks[t].s, key |-> ss[tasks[t].s].key,
                  arg |-> tasks[t].arg, ret |-> Rejected, pre |-> tasks[t].pre,
                  io |-> tasks[t].io])
    /\ changes' = NoChanges
    /\ UNCHANGED <<storage, stores, calls, sequential, rejecting, limit, recording, backend, callbacks, guard, echo, objects, heap, stuck>>

\* the backend.set awaited by set is rejected: set rejects, after setStore
SetRejected(t) ==
    /\ rejecting
    /\ tasks[t] # Idle
    /\ tasks[t].pc = "write"
    /\ tasks' = [tasks EXCEPT ![t] = Idle]
    /\ Completed([op |-> tasks[t].op, s |-> tasks[t].s, key |-> ss[tasks[t].s].key,
                  arg |-> tasks[t].arg, ret |-> Rejected, pre |-> tasks[t].pre,
                  io |-> tasks[t].io])
    /\ changes' = NoChanges
    /\ UNCHANGED <<storage, stores, ss, calls, sequential, rejecting, limit, recording, backend, callbacks, guard, echo, objects, heap, stuck>>

\* faulty variant: ready marks the store ready although a backend call failed
ReadyRejected_MarksReady(t) ==
    /\ rejecting
    /\ tasks[t] # Idle
    /\ tasks[t].pc \in {"got", "seed", "old_got", "mig_write", "set_done"}
    /\ tasks' = [tasks EXCEPT ![t] = Idle]
    /\ ss' = [ss EXCEPT ![tasks[t].s].isReady = TRUE]
    /\ Completed([op |-> tasks[t].op, s |-> tasks[t].s, key |-> ss[tasks[t].s].key,
                  arg |-> Undefined,
                  ret |-> IF tasks[t].op = "subscribe" THEN Undefined ELSE Rejected,
                  pre |-> tasks[t].pre, io |-> tasks[t].io])
    /\ changes' = NoChanges
    /\ UNCHANGED <<storage, stores, calls, sequential, rejecting, limit, recording, backend, callbacks, guard, echo, objects, heap, stuck>>

\* a backend call awaited inside ready is rejected (backend.get(key), the
\* seeding backend.set, backend.get(oldKey), the backend.set of set(newValue),
\* backend.remove(oldKey)): ready rejects before isReady = true, get rejects
\* with it, and subscribe's catch logs the error without calling run
ReadyRejected(t) ==
    /\ rejecting
    /\ tasks[t] # Idle
    /\ tasks[t].pc \in {"got", "seed", "old_got", "mig_write", "set_done"}
    /\ tasks' = [tasks EXCEPT ![t] = Idle]
    /\ Completed([op |-> tasks[t].op, s |-> tasks[t].s, key |-> ss[tasks[t].s].key,
                  arg |-> Undefined,
                  ret |-> IF tasks[t].op = "subscribe" THEN Undefined ELSE Rejected,
                  pre |-> tasks[t].pre, io |-> tasks[t].io])
    /\ changes' = NoChanges
    /\ UNCHANGED <<storage, stores, ss, calls, sequential, rejecting, limit, recording, backend, callbacks, guard, echo, objects, heap, stuck>>

\* the same operations against a backend that may reject
NextFail ==
    \/ Next
    \/ \E t \in TaskIds : SetRejected(t)
    \/ \E t \in TaskIds : ReadyRejected(t)


\* backend.cleanUp(): storageLegacy empties its callbacks array; the
\* WebExtension backends ask chrome.storage.onChanged to remove the listeners,
\* which for storageWebExt were added to browser.storage.onChanged: they are
\* removed where the two namespaces share the event and stay where they do not
cleanUp ==
    /\ MayCall
    /\ calls' = calls + 1
    /\ callbacks' \in (IF backend = "webExt" THEN {{}, callbacks} ELSE {{}})
    /\ Completed([op |-> "cleanUp", s |-> NoStore, key |-> <<>>, arg |-> Undefined,
                  ret |-> Undefined, pre |-> NoPre, io |-> {}])
    /\ changes' = NoChanges
    /\ UNCHANGED <<storage, stores, ss, tasks, sequential, rejecting, limit, recording,
                   backend, guard, echo, objects, heap, stuck>>

\* the keys of a handler's stores Map that _clear has not removed yet
ClearKeys(r, io) ==
    {k \in AllKeys : stores[r][k] # NoStore /\ <<"remove", k>> \notin io}

\* _clear one iteration on: backend.remove of the next key of the stores Map
\* is called, or after the last key stores.clear() and _clear returns
ClearLoop(t, r, pre, io) ==
    IF ClearKeys(r, io) = {}
    THEN /\ stores' = [stores EXCEPT ![r] = [k \in AllKeys |-> NoStore]]
         /\ tasks' = [tasks EXCEPT ![t] = Idle]
         /\ Completed([op |-> "_clear", s |-> NoStore, key |-> <<>>,
                       arg |-> Undefined, ret |-> Undefined, pre |-> pre,
                       io |-> io, r |-> r])
         /\ changes' = NoChanges
         /\ UNCHANGED <<storage, ss, echo, stuck>>
    ELSE \E k \in ClearKeys(r, io) :
            /\ BackendRemoval(k)
            /\ tasks' = [tasks EXCEPT ![t] =
                   [op |-> "_clear", s |-> NoStore, r |-> r, pc |-> "clearing",
                    arg |-> Undefined, tmp |-> Undefined, i |-> 0,
                    was |-> Undefined, pre |-> pre, io |-> io \cup {<<"remove", k>>},
                    old |-> Undefined]]
            /\ UNCHANGED <<stores, trace>>

\* webExtStores._clear up to its first await
_clear(t, r) ==
    /\ MayCall
    /\ FreeTask(t)
    /\ calls' = calls + 1
    /\ ClearLoop(t, r, [storage |-> storage, stores |-> stores[r]], {})
    /\ UNCHANGED <<sequential, rejecting, limit, recording, backend, callbacks, guard, objects, heap>>

\* _clear resumes after await backend.remove(key)
AfterClearRemove(t) ==
    /\ tasks[t] # Idle
    /\ tasks[t].pc = "clearing"
    /\ ClearLoop(t, tasks[t].r, tasks[t].pre, tasks[t].io)
    /\ UNCHANGED <<calls, sequential, rejecting, limit, recording, backend, callbacks, guard, objects, heap>>

\* the operations with those of the backend's and the handler's teardown
NextAdmin ==
    \/ Next
    \/ cleanUp
    \/ \E t \in TaskIds, r \in Registries : _clear(t, r)
    \/ \E t \in TaskIds : AfterClearRemove(t)

\* seq without its n-th element
Remove(seq, n) == SubSeq(seq, 1, n - 1) \o SubSeq(seq, n + 1, Len(seq))

\* the write of a backend.set a listener's result.set(change.newValue) called
EchoWrite(n) ==
    /\ n \in 1..Len(echo)
    /\ BackendWriteAfter(Remove(echo, n), ss[echo[n].s].key, echo[n].value, echo[n].old)
    /\ UNCHANGED <<stores, tasks, trace, calls, sequential, rejecting, limit, recording,
                   backend, callbacks, guard, objects, heap>>

\* the operations with the handlers that compare oldValue, for stores
\* without migrations
NextGuard ==
    \/ \E r \in (IF ss = <<>> THEN {"A"} ELSE Registries), key \in BaseKeys, d \in Defaults,
          e \in BOOLEAN, vo \in {o \in VersionedOptionsSet : o.migrations = <<>>} :
             addSyncStore(r, key, d, e, vo)
    \/ \E key \in AllKeys, value \in Vals : BackendSet(key, value)
    \/ \E t \in TaskIds, s \in StoreIds, value \in Vals : set(t, s, value)
    \/ \E t \in TaskIds, s \in StoreIds : reset(t, s)
    \/ \E t \in TaskIds, s \in StoreIds : ready(t, s)
    \/ \E t \in TaskIds, s \in StoreIds : get(t, s)
    \/ \E t \in TaskIds, s \in StoreIds : subscribe(t, s)
    \/ \E t \in TaskIds : SetWrite(t)
    \/ \E t \in TaskIds : updateFromBackend(t)
    \/ \E t \in TaskIds : SeedWrite(t)
    \/ \E t \in TaskIds : AfterUpdate(t)
    \/ \E t \in TaskIds : ReadyDone(t)
    \/ \E n \in 1..MaxEcho : EchoWrite(n)

\* webExtStores.addLookupStore: addLookupMethods(addSyncStore(...)); the
\* default is the object the application passes
addLookupStore(r, key, defaultValue, syncFromExternal, versionedOptions) ==
    /\ MayCall
    /\ Len(ss) < MaxStores
    /\ heap' = Append(heap, defaultValue)
    /\ ss' = Append(ss, syncStore(key, Len(heap) + 1, syncFromExternal, versionedOptions))
    /\ stores' = [stores EXCEPT
                    ![r][RegisteredKey(key, versionedOptions)] = Len(ss) + 1]
    /\ calls' = calls + 1
    /\ Completed([op |-> "addLookupStore", s |-> Len(ss) + 1, key |-> key,
                  arg |-> Undefined,
                  ret |-> Undefined, pre |-> NoPre, io |-> {}])
    /\ changes' = NoChanges
    /\ UNCHANGED <<storage, tasks, sequential, rejecting, limit, recording, backend,
                   callbacks, guard, echo, objects, stuck>>

\* getItem(key) up to the first await of store.get()
getItem(t, s, key) ==
    /\ MayCall
    /\ FreeTask(t)
    /\ ReadyCall(t, s, "getItem", [key |-> key], ss)
    /\ UNCHANGED ss

\* setItem(key, value) up to the first await of store.get()
setItem(t, s, key, value) ==
    /\ MayCall
    /\ FreeTask(t)
    /\ ReadyCall(t, s, "setItem", [key |-> key, value |-> value], ss)
    /\ UNCHANGED ss

\* getItem and setItem resume with storeValue, the object store.get() returned:
\* getItem returns storeValue[key]; setItem assigns storeValue[key] = value
\* and calls store.set(storeValue), which returns when the value is the
\* current one and else calls setStore and backend.set
ItemDone(t) ==
    /\ tasks[t] # Idle
    /\ tasks[t].pc = "ready_done"
    /\ tasks[t].op \in {"getItem", "setItem"}
    /\ LET s == tasks[t].s
           storeValue == ss[s].currentValue
           entry == [op |-> tasks[t].op, s |-> s, key |-> ss[s].key,
                     arg |-> tasks[t].arg, before |-> heap[storeValue],
                     ret |-> IF tasks[t].op = "getItem"
                             THEN heap[storeValue][tasks[t].arg.key]
                             ELSE Undefined,
                     pre |-> tasks[t].pre, io |-> tasks[t].io]
       IN IF tasks[t].op = "getItem"
          THEN /\ tasks' = [tasks EXCEPT ![t] = Idle]
               /\ Completed(entry)
               /\ UNCHANGED <<ss, heap>>
          ELSE /\ heap' = [heap EXCEPT
                             ![storeValue][tasks[t].arg.key] = tasks[t].arg.value]
               /\ IF ~guard /\ storeValue = ss[s].currentValue
                  THEN /\ tasks' = [tasks EXCEPT ![t] = Idle]
                       /\ Completed(entry)
                       /\ UNCHANGED ss
                  ELSE /\ ss' = [ss EXCEPT ![s] = setStore(@, storeValue)]
                       /\ tasks' = [tasks EXCEPT ![t].pc = "write",
                                                 ![t].arg = storeValue,
                                                 ![t].old = Old(ss[s].key)]
                       /\ UNCHANGED trace
    /\ changes' = NoChanges
    /\ UNCHANGED <<storage, stores, calls, sequential, rejecting, limit, recording,
                   backend, callbacks, guard, echo, objects, stuck>>

\* the operations of lookup stores without migrations
NextLookup ==
    \/ \E r \in (IF ss = <<>> THEN {"A"} ELSE Registries), key \in BaseKeys,
          d \in RecordDefaults, e \in BOOLEAN,
          vo \in {o \in VersionedOptionsSet : o.migrations = <<>>} :
             addLookupStore(r, key, d, e, vo)
    \/ \E t \in TaskIds, s \in StoreIds, key \in Props : getItem(t, s, key)
    \/ \E t \in TaskIds, s \in StoreIds, key \in Props, value \in Vals :
          setItem(t, s, key, value)
    \/ \E t \in TaskIds, s \in StoreIds : reset(t, s)
    \/ \E t \in TaskIds, s \in StoreIds : ready(t, s)
    \/ \E t \in TaskIds : SetWrite(t)
    \/ \E t \in TaskIds : updateFromBackend(t)
    \/ \E t \in TaskIds : SeedWrite(t)
    \/ \E t \in TaskIds : AfterUpdate(t)
    \/ \E t \in TaskIds : ReadyDone(t)
    \/ \E t \in TaskIds : ItemDone(t)

\* subscribe(run) with a run that throws when it is given a value it does not
\* accept, on a store that is ready and holds a value it accepts
subscribeThrowing(t, s) ==
    /\ MayCall
    /\ FreeTask(t)
    /\ ~ss[s].subscribed
    /\ ss[s].isReady
    /\ ss[s].currentValue \notin Unwelcome
    /\ ReadyCall(t, s, "subscribe", Undefined, ss)
    /\ ss' = [ss EXCEPT ![s] = run([@ EXCEPT !.subscribed = TRUE, !.throws = TRUE],
                                   @.currentValue)]

\* the operations of stores without migrations, some of them with a
\* subscriber that throws; the application writes through the other stores
NextThrow ==
    \/ \E r \in (IF ss = <<>> THEN {"A"} ELSE Registries), key \in BaseKeys, d \in Defaults,
          e \in BOOLEAN, vo \in {o \in VersionedOptionsSet : o.migrations = <<>>} :
             addSyncStore(r, key, d, e, vo)
    \/ \E t \in TaskIds, s \in {i \in StoreIds : ~ss[i].throws}, value \in Vals :
          set(t, s, value)
    \/ \E t \in TaskIds, s \in StoreIds : ready(t, s)
    \/ \E t \in TaskIds, s \in StoreIds : subscribe(t, s)
    \/ \E t \in TaskIds, s \in StoreIds : subscribeThrowing(t, s)
    \/ \E t \in TaskIds : SetWrite(t)
    \/ \E t \in TaskIds : updateFromBackend(t)
    \/ \E t \in TaskIds : SeedWrite(t)
    \/ \E t \in TaskIds : AfterUpdate(t)
    \/ \E t \in TaskIds : ReadyDone(t)

\* the keys of a handler's stores Map that exportJson has not visited yet
ExportKeys(r, result) ==
    {k \in AllKeys : stores[r][k] # NoStore
                     /\ \A n \in 1..Len(result) : result[n][1] # k}

\* JSON.stringify(result): a property whose value is undefined is left out
StringifyEntries(result) ==
    Stringify(SelectSeq(result, LAMBDA entry : entry[2] # Undefined))

\* exportJson one iteration on: store.get() of the next entry of the stores
\* Map is called (ready() up to its first await), or after the last entry
\* JSON.stringify(result) is returned
ExportLoop(t, r, result, pre, io) ==
    IF ExportKeys(r, result) = {}
    THEN /\ tasks' = [tasks EXCEPT ![t] = Idle]
         /\ Completed([op |-> "exportJson", s |-> NoStore, key |-> <<>>,
                       arg |-> Undefined, ret |-> StringifyEntries(result),
                       pre |-> pre, io |-> io, r |-> r])
         /\ UNCHANGED heap
    ELSE LET key == CHOOSE k \in ExportKeys(r, result) : TRUE
             s == stores[r][key]
         IN /\ tasks' = [tasks EXCEPT ![t] =
                   [op |-> "exportJson", s |-> s, r |-> r, exported |-> key,
                    result |-> result,
                    pc |-> IF ss[s].isReady THEN "ready_done" ELSE "got",
                    arg |-> Undefined,
                    tmp |-> IF ss[s].isReady THEN Undefined
                            ELSE Parsed(storage, ss[s].key),
                    i |-> 0, was |-> Was(s), pre |-> pre, io |-> io,
                    old |-> Undefined]]
            /\ heap' = IF ss[s].isReady THEN heap ELSE Allocated(storage, ss[s].key)
            /\ UNCHANGED trace

\* the stores' values and the storage area when exportJson or importJson is called
JsonPre ==
    [storage |-> storage, cache |-> [i \in DOMAIN ss |-> ss[i].currentValue]]

\* webExtStores.exportJson up to its first await
exportJson(t, r) ==
    /\ MayCall
    /\ FreeTask(t)
    /\ calls' = calls + 1
    /\ ExportLoop(t, r, <<>>, JsonPre, {})
    /\ changes' = NoChanges
    /\ UNCHANGED <<storage, stores, ss, sequential, rejecting, limit, recording,
                   backend, callbacks, guard, echo, objects, stuck>>

\* exportJson resumes with the value store.get() returned:
\* result[key] = await store.get()
ExportDone(t) ==
    /\ tasks[t] # Idle
    /\ tasks[t].pc = "ready_done"
    /\ tasks[t].op = "exportJson"
    /\ ExportLoop(t, tasks[t].r,
                  Append(tasks[t].result,
                         <<tasks[t].exported, ss[tasks[t].s].currentValue>>),
                  tasks[t].pre, tasks[t].io)
    /\ changes' = NoChanges
    /\ UNCHANGED <<storage, stores, ss, calls, sequential, rejecting, limit,
                   recording, backend, callbacks, guard, echo, objects, stuck>>

\* faulty variant: importJson looks for a store whose own key is the entry's key
Target_ByStoreKey(r, key) ==
    IF \E i \in DOMAIN ss : ss[i].key = key
    THEN CHOOSE i \in DOMAIN ss : ss[i].key = key
    ELSE NoStore

\* importJson: const store = stores.get(key)
Target(r, key) == stores[r][key]

\* importJson: the entries from the first one that has a store
\* (if (store == null) continue)
RECURSIVE SkipUnregistered(_, _)
SkipUnregistered(r, data) ==
    IF data = <<>> \/ Target(r, data[1][1]) # NoStore
    THEN data
    ELSE SkipUnregistered(r, Tail(data))

\* importJson one iteration on: store.set(value) of the next entry that has a
\* store is called (set up to its await), or after the last entry importJson
\* returns
ImportLoop(t, r, json, data, pre, io) ==
    LET d == SkipUnregistered(r, data)
    IN IF d = <<>>
       THEN /\ tasks' = [tasks EXCEPT ![t] = Idle]
            /\ Completed([op |-> "importJson", s |-> NoStore, key |-> <<>>,
                          arg |-> json, ret |-> Undefined, pre |-> pre,
                          io |-> io, r |-> r])
            /\ UNCHANGED ss
       ELSE LET s == Target(r, d[1][1])
                value == d[1][2]
                task == [op |-> "importJson", s |-> s, r |-> r, data |-> Tail(d),
                         pc |-> "imported", arg |-> json, tmp |-> value, i |-> 0,
                         was |-> Was(s), pre |-> pre, io |-> io,
                         old |-> Old(ss[s].key)]
            IN /\ IF ~guard /\ value = ss[s].currentValue
                  THEN /\ tasks' = [tasks EXCEPT ![t] = task]
                       /\ UNCHANGED ss
                  ELSE /\ ss' = [ss EXCEPT ![s] = setStore(@, value)]
                       /\ tasks' = [tasks EXCEPT ![t] =
                                       [task EXCEPT !.pc = "import_write"]]
               /\ UNCHANGED trace

\* webExtStores.importJson up to its first await: JSON.parse(json), then the loop
importJson(t, r, json) ==
    /\ MayCall
    /\ FreeTask(t)
    /\ calls' = calls + 1
    /\ ImportLoop(t, r, json, Parse(json), JsonPre, {})
    /\ changes' = NoChanges
    /\ UNCHANGED <<storage, stores, sequential, rejecting, limit, recording,
                   backend, callbacks, guard, echo, objects, heap, stuck>>

\* the backend write of the set importJson awaits
ImportWrite(t) ==
    /\ tasks[t] # Idle
    /\ tasks[t].pc = "import_write"
    /\ BackendWrite(ss[tasks[t].s].key, tasks[t].tmp, tasks[t].old)
    /\ tasks' = [tasks EXCEPT ![t].pc = "imported",
                               ![t].io = Did(t, "set", ss[tasks[t].s].key)]
    /\ UNCHANGED <<stores, trace, calls, sequential, rejecting, limit, recording,
                   backend, callbacks, guard, objects, heap>>

\* importJson resumes after await store.set(value)
ImportNext(t) ==
    /\ tasks[t] # Idle
    /\ tasks[t].pc = "imported"
    /\ ImportLoop(t, tasks[t].r, tasks[t].arg, tasks[t].data, tasks[t].pre,
                  tasks[t].io)
    /\ changes' = NoChanges
    /\ UNCHANGED <<storage, stores, calls, sequential, rejecting, limit, recording,
                   backend, callbacks, guard, echo, objects, heap, stuck>>

\* the keys and the texts the application passes to importJson: objects of up
\* to two entries, and what exportJson returned
JsonKeys == {<<"k">>, <<"k", "$", "$", "0">>}
JsonData ==
    {<<>>} \cup {<< <<k, v>> >> : k \in JsonKeys, v \in Vals}
           \cup UNION {{<< <<k, v>>, <<l, w>> >> :
                          l \in JsonKeys \ {k}, v \in Vals, w \in Vals} :
                       k \in JsonKeys}
JsonTexts == {Stringify(d) : d \in JsonData}
Exported == {trace[n].ret : n \in {m \in DOMAIN trace : trace[m].op = "exportJson"}}

\* the operations with exportJson and importJson
NextJson ==
    \/ \E r \in (IF ss = <<>> THEN {"A"} ELSE Registries), key \in BaseKeys, d \in Defaults,
          e \in BOOLEAN, vo \in VersionedOptionsSet : addSyncStore(r, key, d, e, vo)
    \/ \E t \in TaskIds, r \in Registries : exportJson(t, r)
    \/ \E t \in TaskIds, r \in Registries, json \in JsonTexts \cup Exported :
          importJson(t, r, json)
    \/ \E t \in TaskIds : updateFromBackend(t)
    \/ \E t \in TaskIds : SeedWrite(t)
    \/ \E t \in TaskIds : AfterUpdate(t)
    \/ \E t \in TaskIds : Migrate(t)
    \/ \E t \in TaskIds : MigrationWrite(t)
    \/ \E t \in TaskIds : MigrationRemove(t)
    \/ \E t \in TaskIds : AfterRemove(t)
    \/ \E t \in TaskIds : ExportDone(t)
    \/ \E t \in TaskIds : ImportWrite(t)
    \/ \E t \in TaskIds : ImportNext(t)

\* the Unsubscriber subscribe returned is called: the svelte writable drops
\* the subscriber
unsubscribe(s) ==
    /\ MayCall
    /\ ss[s].subscribed
    /\ ss' = [ss EXCEPT ![s].subscribed = FALSE]
    /\ calls' = calls + 1
    /\ Completed([op |-> "unsubscribe", s |-> s, key |-> ss[s].key,
                  arg |-> Undefined, ret |-> Undefined, pre |-> NoPre, io |-> {}])
    /\ changes' = NoChanges
    /\ UNCHANGED <<storage, stores, tasks, sequential, rejecting, limit, recording,
                   backend, callbacks, guard, echo, objects, heap, stuck>>

\* the operations with those of an application that unsubscribes
NextUnsub ==
    \/ Next
    \/ \E s \in StoreIds : unsubscribe(s)

\* the values a migration produces from what the backend held before
MigratedVals == {migrate("x", Parse(c)) : c \in PriorContents \ {Null}}

\* the operations against a backend that may reject, with an application
\* that also stores a value equal to the one a migration produces
NextMig ==
    \/ NextFail
    \/ \E t \in TaskIds, s \in StoreIds, value \in MigratedVals : set(t, s, value)

\* the continuations of the awaits are run by the microtask queue: none of
\* them waits for ever
GuardFairness ==
    /\ WF_vars(\E t \in TaskIds : SetWrite(t))
    /\ WF_vars(\E t \in TaskIds : updateFromBackend(t))
    /\ WF_vars(\E t \in TaskIds : SeedWrite(t))
    /\ WF_vars(\E t \in TaskIds : AfterUpdate(t))
    /\ WF_vars(\E t \in TaskIds : ReadyDone(t))
    /\ WF_vars(\E n \in 1..MaxEcho : EchoWrite(n))

Spec == Init /\ [][Next]_vars
SpecSeq == InitSeq /\ [][Next]_vars
SpecFail == InitFail /\ [][NextFail]_vars
SpecRace == InitRace /\ [][Next]_vars
SpecAdmin == InitAdmin /\ [][NextAdmin]_vars
SpecGuard == InitGuard /\ [][NextGuard]_vars
SpecLookup == InitLookup /\ [][NextLookup]_vars
SpecThrow == InitThrow /\ [][NextThrow]_vars
SpecJson == InitJson /\ [][NextJson]_vars
SpecUnsub == Init /\ [][NextUnsub]_vars
SpecMig == InitFail /\ [][NextMig]_vars
SpecGuardFair == InitGuard /\ [][NextGuard]_vars /\ GuardFairness

\* ------------------------------------------------------------------ claims
\* the i-th last completed call (0: the last one); the state is the one the
\* last call left when no call is in flight
Done(i) == trace[Len(trace) - i]
Settled(n) == sequential /\ NoTaskInFlight /\ Len(trace) >= n
Holds(key) == BackendGet(storage, key)

\* C1: after set(v1) and then set(v2) have completed on a store, get() returns
\* v2 and the backend holds v2 under the store's key.
C1_SetSetGet ==
    (/\ Settled(3)
     /\ Done(2).op = "set" /\ Done(1).op = "set" /\ Done(0).op = "get"
     /\ Done(2).s = Done(0).s /\ Done(1).s = Done(0).s)
    => /\ Done(0).ret = Done(1).arg
       /\ Holds(Done(0).key) = Done(1).arg

\* what a get/ready call found when it was made
Migrations(s) == ss[s].versionedOptions.migrations
OldKeyOf(s, i) == OldKey(ss[s].keyPure, Migrations(s)[i][1])
PresentBefore(e, key) == e.pre.storage[key] # Null
ValueBefore(e, key) == Parse(e.pre.storage[key])
Fresh(e) == ~e.pre.isReady /\ e.pre.currentValue = ss[e.s].defaultValue
NoOldKeyBefore(e) ==
    \A i \in 1..Len(Migrations(e.s)) : ~PresentBefore(e, OldKeyOf(e.s, i))
\* strategy i is the last one whose old key held a value
LastPresent(e, i) ==
    /\ PresentBefore(e, OldKeyOf(e.s, i))
    /\ \A j \in 1..Len(Migrations(e.s)) :
          j > i => ~PresentBefore(e, OldKeyOf(e.s, j))
Migrated(e, i) == migrate(Migrations(e.s)[i][2], ValueBefore(e, OldKeyOf(e.s, i)))

\* C2 as stated: a fresh store whose key is absent from the backend returns
\* defaultValue from get(), and after get() or ready() the backend holds
\* defaultValue under the store's key.
C2_FreshDefault_AsStated ==
    (/\ Settled(1)
     /\ Done(0).op \in {"get", "ready"}
     /\ Fresh(Done(0))
     /\ ~PresentBefore(Done(0), Done(0).key))
    => /\ Done(0).op = "get" => Done(0).ret = ss[Done(0).s].defaultValue
       /\ Holds(Done(0).key) = ss[Done(0).s].defaultValue

\* C2 (amended): the same for a fresh store whose key and whose migrations'
\* old keys are all absent from the backend.
C2_FreshDefault ==
    (/\ Settled(1)
     /\ Done(0).op \in {"get", "ready"}
     /\ Fresh(Done(0))
     /\ ~PresentBefore(Done(0), Done(0).key)
     /\ NoOldKeyBefore(Done(0)))
    => /\ Done(0).op = "get" => Done(0).ret = ss[Done(0).s].defaultValue
       /\ Holds(Done(0).key) = ss[Done(0).s].defaultValue

C2_Witness ==
    /\ Settled(1)
    /\ Done(0).op = "get"
    /\ Fresh(Done(0))
    /\ ~PresentBefore(Done(0), Done(0).key)
    /\ NoOldKeyBefore(Done(0))
    /\ Len(Migrations(Done(0).s)) > 0
    /\ Done(0).ret = ss[Done(0).s].defaultValue
    /\ <<"set", Done(0).key>> \in Done(0).io

\* C3 as stated: if the backend holds v under the store's key when a store
\* that is not ready is accessed, get() returns v, the backend still holds v
\* and the call wrote nothing under that key.
C3_AdoptStored_AsStated ==
    (/\ Settled(1)
     /\ Done(0).op = "get"
     /\ ~Done(0).pre.isReady
     /\ PresentBefore(Done(0), Done(0).key))
    => /\ Done(0).ret = ValueBefore(Done(0), Done(0).key)
       /\ Holds(Done(0).key) = ValueBefore(Done(0), Done(0).key)
       /\ <<"set", Done(0).key>> \notin Done(0).io

\* C3 (amended): the same when none of the store's migrations finds a value
\* under its old key.
C3_AdoptStored ==
    (/\ Settled(1)
     /\ Done(0).op = "get"
     /\ ~Done(0).pre.isReady
     /\ PresentBefore(Done(0), Done(0).key)
     /\ NoOldKeyBefore(Done(0)))
    => /\ Done(0).ret = ValueBefore(Done(0), Done(0).key)
       /\ Holds(Done(0).key) = ValueBefore(Done(0), Done(0).key)
       /\ <<"set", Done(0).key>> \notin Done(0).io

C3_Witness ==
    /\ Settled(1)
    /\ Done(0).op = "get"
    /\ ~Done(0).pre.isReady
    /\ PresentBefore(Done(0), Done(0).key)
    /\ NoOldKeyBefore(Done(0))
    /\ Done(0).ret = ValueBefore(Done(0), Done(0).key)
    /\ Done(0).ret # ss[Done(0).s].defaultValue

\* C4: after reset() has completed, get() returns defaultValue and the backend
\* holds defaultValue under the store's key.
C4_ResetGet ==
    (/\ Settled(2)
     /\ Done(1).op = "reset" /\ Done(0).op = "get"
     /\ Done(1).s = Done(0).s)
    => /\ Done(0).ret = ss[Done(0).s].defaultValue
       /\ Holds(Done(0).key) = ss[Done(0).s].defaultValue

\* C5: after set(v) has completed on one store, a store created afterwards
\* with the same key returns v from get().
C5_RoundTrip ==
    (/\ Settled(3)
     /\ Done(2).op = "set" /\ Done(1).op = "addSyncStore" /\ Done(0).op = "get"
     /\ Done(1).s = Done(0).s
     /\ Done(0).key = Done(2).key)
    => Done(0).ret = Done(2).arg

\* a store the handler still routes changes to
Registered(s) == \E r \in Registries, k \in AllKeys : stores[r][k] = s

\* C6: once a change of a key has been passed to the handlers, every
\* registered store with that key and syncFromExternal = true holds the new
\* value (getCurrent() returns it).
C6_ExternalSync ==
    changes # NoChanges =>
        \A s \in StoreIds :
            (Registered(s) /\ ss[s].syncFromExternal /\ ss[s].key = changes.key)
            => ss[s].currentValue = changes.newValue

DocumentedOldKey(s, n) ==
    IF n = -1 THEN ss[s].keyPure
    ELSE ss[s].keyPure \o seperator \o VersionString(n)

\* a later migration of the call's store found a value under its documented key
LaterPresent(e, i) ==
    \E j \in 1..Len(Migrations(e.s)) :
        j > i /\ PresentBefore(e, DocumentedOldKey(e.s, Migrations(e.s)[j][1]))

C9_RegisteredUnderEffectiveKey ==
    \A r \in Registries, k \in AllKeys :
        stores[r][k] # NoStore => ss[stores[r][k]].key = k

\* C10: a change passed to the handlers changes neither the value nor the
\* subscriber calls of a store with syncFromExternal = false, and a change of
\* a key under which no store is registered changes no store.
C10_NoSyncFrame ==
    [][changes' # NoChanges =>
         /\ \A s \in StoreIds : ~ss[s].syncFromExternal => ss'[s] = ss[s]
         /\ (\A r \in Registries : stores[r][changes'.key] = NoStore) => ss' = ss
      ]_vars

C10_Witness ==
    /\ changes # NoChanges
    /\ \E s \in StoreIds :
          /\ ~ss[s].syncFromExternal
          /\ ss[s].subscribed
          /\ \E r \in Registries : stores[r][changes.key] = s
          /\ ss[s].currentValue # changes.newValue

\* C11: a step in which a change is passed to the handlers makes no backend
\* call on behalf of a listener: the only storage effect of the step is the
\* write that caused the change, and only the call that made that write moves.
C11_NoWriteOnDispatch ==
    [][changes' # NoChanges =>
         /\ changes'.io = {}
         /\ storage' = BackendSetItem(storage, changes'.key, changes'.newValue)
         /\ \A t \in TaskIds :
               tasks'[t] # tasks[t] =>
                   tasks[t] # Idle /\ tasks[t].pc \in {"write", "seed", "mig_write"}
      ]_vars

C11_Witness ==
    /\ Settled(2)
    /\ calls = 2
    /\ Done(0).op = "backend.set"
    /\ changes # NoChanges
    /\ \E s \in StoreIds :
          /\ Registered(s)
          /\ ss[s].syncFromExternal
          /\ ss[s].key = changes.key
          /\ ss[s].currentValue = changes.newValue
          /\ ss[s].currentValue # ss[s].defaultValue

\* C12 as stated: while a subscribe call's readiness pull has not completed,
\* its handler has not been invoked.
C12_SubscribeAfterPull_AsStated ==
    \A t \in TaskIds :
        (tasks[t] # Idle /\ tasks[t].op = "subscribe" /\ tasks[t].pc # "ready_done")
        => ss[tasks[t].s].runs = <<>>

\* C12 (amended): subscribe invokes the handler at once with the cached value,
\* and when the readiness pull has completed the handler is invoked once more
\* with the value the store then holds.
C12_SubscribeDelivery ==
    [][\A s \in StoreIds :
         /\ (~ss[s].subscribed /\ ss'[s].subscribed)
            => ss'[s].runs = <<ss[s].currentValue>>
         /\ \A t \in TaskIds :
               (/\ tasks[t] # Idle
                /\ tasks[t].op = "subscribe"
                /\ tasks[t].s = s
                /\ tasks'[t] = Idle)
               => /\ ss[s].isReady
                  /\ ss'[s].runs =
                         Last(Append(ss[s].runs, ss[s].currentValue), MaxRuns)
      ]_vars

C12_Witness ==
    /\ NoTaskInFlight
    /\ calls = 2
    /\ \E s \in StoreIds :
          /\ ss[s].subscribed
          /\ ss[s].isReady
          /\ Len(ss[s].runs) = 3
          /\ ss[s].runs[1] = ss[s].defaultValue
          /\ ss[s].runs[2] # ss[s].defaultValue
          /\ ss[s].runs[3] = ss[s].runs[2]

\* C13: in the step in which a set (of the application or of a migration)
\* calls backend.set for v, the store's cache already holds v, a subscriber has
\* been called with v, and the storage area is still untouched.
C13_CacheBeforeWrite ==
    [][\A t \in TaskIds :
         (/\ tasks'[t] # Idle
          /\ tasks'[t].pc \in {"write", "mig_write"}
          /\ tasks[t] # tasks'[t])
         => LET s == tasks'[t].s
                v == tasks'[t].arg
            IN /\ ss'[s].currentValue = v
               /\ ss[s].subscribed
                  => ss'[s].runs = Last(Append(ss[s].runs, v), MaxRuns)
               /\ storage' = storage
      ]_vars

C13_Witness ==
    \E t \in TaskIds :
        /\ tasks[t] # Idle
        /\ tasks[t].pc = "write"
        /\ ss[tasks[t].s].subscribed
        /\ ss[tasks[t].s].currentValue = tasks[t].arg
        /\ Len(ss[tasks[t].s].runs) >= 2
        /\ ss[tasks[t].s].runs[Len(ss[tasks[t].s].runs)] = tasks[t].arg
        /\ storage[ss[tasks[t].s].key] # Stringify(tasks[t].arg)

\* C14: when the backend write of set(v) fails (the call ends without a
\* change being passed to the handlers), set reports the rejection to its
\* caller, the store's cache holds v, which differs from the value it held
\* before the call, and the storage area is unchanged.
C14_SetFailureKeepsCache ==
    [][\A t \in TaskIds :
         (/\ tasks[t] # Idle
          /\ tasks[t].pc = "write"
          /\ tasks'[t] = Idle
          /\ changes' = NoChanges)
         => /\ trace'[Len(trace')].op = tasks[t].op
            /\ trace'[Len(trace')].ret = Rejected
            /\ ss'[tasks[t].s].currentValue = tasks[t].arg
            /\ ss'[tasks[t].s].currentValue # tasks[t].was
            /\ storage' = storage
      ]_vars

C14_Witness ==
    /\ Settled(1)
    /\ Done(0).op = "set"
    /\ Done(0).ret = Rejected
    /\ ss[Done(0).s].currentValue = Done(0).arg
    /\ Holds(Done(0).key) # Done(0).arg
    /\ Holds(Done(0).key) # Undefined

\* a call of ready, get or subscribe ends while a backend call of its
\* readiness pull is still awaited: that backend call was rejected
PullRejected(t) ==
    /\ tasks[t] # Idle
    /\ tasks[t].pc \in {"got", "seed", "old_got", "mig_write", "set_done"}
    /\ tasks'[t] = Idle

\* a call of ready, get or subscribe is made on a store that is not ready
CalledNotReady(t) ==
    /\ tasks[t] = Idle
    /\ tasks'[t] # Idle
    /\ tasks'[t].op \in {"ready", "get", "subscribe"}
    /\ ~ss[tasks'[t].s].isReady

\* C15 as stated: when a backend call of the readiness pull fails, ready and
\* get report the rejection, the store stays not ready, and its cache holds
\* the value it held when the failed step (the read of the key with its
\* seeding write, or one migration entry) began; a later call on the store
\* that is not ready reads the key again.
C15_PullFailure_AsStated ==
    [][\A t \in TaskIds :
         /\ PullRejected(t)
            => /\ tasks[t].op \in {"ready", "get"}
                  => trace'[Len(trace')].ret = Rejected
               /\ ~ss'[tasks[t].s].isReady
               /\ ss'[tasks[t].s].currentValue = tasks[t].was
         /\ CalledNotReady(t)
            => /\ tasks'[t].pc = "got"
               /\ tasks'[t].tmp = BackendGet(storage, ss[tasks'[t].s].key)
      ]_vars

\* C15 (amended): the same, except that when the step that failed is a
\* migration entry past its set(newValue), the cache holds the migrated value.
C15_PullFailure ==
    [][\A t \in TaskIds :
         /\ PullRejected(t)
            => /\ tasks[t].op \in {"ready", "get"}
                  => trace'[Len(trace')].ret = Rejected
               /\ ~ss'[tasks[t].s].isReady
               /\ ss'[tasks[t].s].currentValue =
                     IF tasks[t].pc \in {"mig_write", "set_done"}
                     THEN migrate(Migrations(tasks[t].s)[tasks[t].i][2], tasks[t].tmp)
                     ELSE tasks[t].was
         /\ CalledNotReady(t)
            => /\ tasks'[t].pc = "got"
               /\ tasks'[t].tmp = BackendGet(storage, ss[tasks'[t].s].key)
      ]_vars

C15_Witness ==
    /\ Settled(2)
    /\ Done(1).op = "get"
    /\ Done(1).ret = Rejected
    /\ Done(0).op = "get"
    /\ Done(0).s = Done(1).s
    /\ ~Done(0).pre.isReady
    /\ Done(0).pre.currentValue # ss[Done(0).s].defaultValue
    /\ Done(0).pre.currentValue # BackendGet(Done(1).pre.storage, Done(1).key)
    /\ Done(0).ret # Rejected
    /\ ss[Done(0).s].isReady
    /\ Done(0).ret = Holds(Done(0).key)

\* a call in flight that has read the store's key from the backend in its own
\* readiness pull and has not finished that pull
Pulling(t) ==
    /\ tasks[t] # Idle
    /\ tasks[t].pc \in {"got", "seed", "updated", "old_got", "mig_write",
                        "set_done", "removed"}

\* C16: no two calls of one store are both in a readiness pull of their own:
\* the key is read, and the default seeded, by at most one of them.
C16_SinglePull ==
    \A t, u \in TaskIds :
        (t # u /\ Pulling(t) /\ Pulling(u)) => tasks[t].s # tasks[u].s

\* C17: no two calls of one store have both applied the migration function of
\* the same entry.
C17_MigrateOnce ==
    \A t, u \in TaskIds :
        (/\ t # u
         /\ Pulling(t) /\ Pulling(u)
         /\ tasks[t].s = tasks[u].s
         /\ tasks[t].pc \in {"mig_write", "set_done", "removed"}
         /\ tasks[u].pc \in {"mig_write", "set_done", "removed"})
        => tasks[t].i # tasks[u].i

\* C18 as stated: a store that is not ready holds defaultValue.
C18_DefaultUntilReady_AsStated ==
    \A s \in StoreIds : ~ss[s].isReady => ss[s].currentValue = ss[s].defaultValue

\* C18 (amended): a store is created holding defaultValue and not ready, and
\* while it is not ready its cache changes only to the value of a set that is
\* applied (by the application or by a migration), to the value its own pull
\* read under its key, or to the new value of a change passed to a handler
\* that has the store under the changed key with syncFromExternal = true.
C18_DefaultUntilReady ==
    [][/\ Len(ss') > Len(ss)
          => /\ ss'[Len(ss')].currentValue = ss'[Len(ss')].defaultValue
             /\ ~ss'[Len(ss')].isReady
       /\ \A s \in StoreIds :
             (~ss[s].isReady /\ ss'[s].currentValue # ss[s].currentValue)
             => \/ \E t \in TaskIds :
                      /\ tasks'[t] # Idle /\ tasks'[t] # tasks[t]
                      /\ tasks'[t].s = s
                      /\ tasks'[t].pc \in {"write", "mig_write"}
                      /\ tasks'[t].arg = ss'[s].currentValue
                \/ \E t \in TaskIds :
                      /\ tasks[t] # Idle
                      /\ tasks[t].s = s
                      /\ tasks[t].pc = "got" /\ tasks'[t].pc = "updated"
                      /\ tasks[t].tmp = ss'[s].currentValue
                \/ /\ changes' # NoChanges
                   /\ changes'.newValue = ss'[s].currentValue
                   /\ ss[s].syncFromExternal
                   /\ \E r \in Registries : stores[r][changes'.key] = s
      ]_vars

C18_Witness ==
    \E t \in TaskIds :
        /\ tasks[t] # Idle
        /\ tasks[t].pc = "write"
        /\ ~ss[tasks[t].s].isReady
        /\ ss[tasks[t].s].currentValue = tasks[t].arg
        /\ ss[tasks[t].s].currentValue # ss[tasks[t].s].defaultValue

\* C19: a store that is ready stays ready in every step, so isReady turns
\* from false to true at most once.
C19_ReadyIsStable ==
    [][\A s \in StoreIds : ss[s].isReady => ss'[s].isReady]_vars

C19_Witness ==
    \E t \in TaskIds :
        /\ Pulling(t)
        /\ ss[tasks[t].s].isReady
        /\ ss[tasks[t].s].currentValue # ss[tasks[t].s].defaultValue

\* C20: every step that changes what the storage area holds under some key
\* passes a change of that key to the registered callbacks.
C20_EveryChangeNotified ==
    [][\A k \in AllKeys :
         storage'[k] # storage[k]
         => /\ changes' # NoChanges
            /\ changes'.key = k
            /\ changes'.newValue = BackendGet(storage', k)
      ]_vars

\* the value the pull of a call's store gives: the stored one, else the default
PullOrSeed(e) ==
    IF PresentBefore(e, e.key) THEN ValueBefore(e, e.key) ELSE ss[e.s].defaultValue

\* C24: a migration entry whose old key is absent changes neither the store
\* nor the backend and passes on to the next entry (or ends the loop); when
\* every old key is absent, ready() and get() on a fresh store complete with
\* the value of the pull alone: the stored value with no backend call made, or
\* the default with the one seeding write.
C24_AbsentOldKeySkipped ==
    [][/\ \A t \in TaskIds :
             (/\ tasks[t] # Idle
              /\ tasks[t].pc = "old_got"
              /\ tasks[t].tmp = Undefined
              /\ tasks'[t] # tasks[t])
             => /\ storage' = storage
                /\ changes' = NoChanges
                /\ ss'[tasks[t].s].currentValue = ss[tasks[t].s].currentValue
                /\ ss'[tasks[t].s].runs = ss[tasks[t].s].runs
                /\ tasks'[t] # Idle
                /\ tasks'[t].io = tasks[t].io
                /\ IF tasks[t].i < Len(Migrations(tasks[t].s))
                   THEN tasks'[t].pc = "old_got" /\ tasks'[t].i = tasks[t].i + 1
                   ELSE tasks'[t].pc = "ready_done" /\ ss'[tasks[t].s].isReady
       /\ (/\ sequential
           /\ Len(trace') > 0
           /\ trace' # trace
           /\ trace'[Len(trace')].op \in {"ready", "get"}
           /\ Fresh(trace'[Len(trace')])
           /\ NoOldKeyBefore(trace'[Len(trace')]))
          => LET e == trace'[Len(trace')]
             IN /\ e.ret # Rejected
                /\ ss'[e.s].currentValue = PullOrSeed(e)
                /\ e.op = "get" => e.ret = PullOrSeed(e)
                /\ e.io = IF PresentBefore(e, e.key) THEN {} ELSE {<<"set", e.key>>}
      ]_vars

C24_Witness ==
    /\ Settled(1)
    /\ Done(0).op = "ready"
    /\ Fresh(Done(0))
    /\ Len(Migrations(Done(0).s)) = 2
    /\ NoOldKeyBefore(Done(0))
    /\ PresentBefore(Done(0), Done(0).key)
    /\ ss[Done(0).s].currentValue = ValueBefore(Done(0), Done(0).key)
    /\ ss[Done(0).s].currentValue # ss[Done(0).s].defaultValue
    /\ Done(0).io = {}

\* the migrated values of the old keys a call found, in the order of the entries
MigratedInOrder(e) ==
    LET present(i) == PresentBefore(e, OldKeyOf(e.s, i))
        idx == SelectSeq([i \in 1..Len(Migrations(e.s)) |-> i], present)
    IN [j \in 1..Len(idx) |-> Migrated(e, idx[j])]

C26_NoSecondMigration ==
    (/\ Settled(3)
     /\ Done(2).op = "get" /\ Done(1).op = "addSyncStore" /\ Done(0).op = "get"
     /\ ~Done(2).pre.isReady
     /\ Done(1).s = Done(0).s
     /\ Done(2).s # Done(0).s
     /\ ss[Done(2).s].keyPure = ss[Done(0).s].keyPure
     /\ ss[Done(2).s].versionedOptions = ss[Done(0).s].versionedOptions
     /\ ss[Done(0).s].versionedOptions.versioned)
    => /\ Done(0).io = {}
       /\ NoOldKeyBefore(Done(0))
       /\ storage = Done(0).pre.storage
       /\ Done(0).ret = Done(2).ret

C26_Witness ==
    /\ Settled(3)
    /\ Done(2).op = "get" /\ Done(1).op = "addSyncStore" /\ Done(0).op = "get"
    /\ ~Done(2).pre.isReady
    /\ Done(1).s = Done(0).s
    /\ Done(2).s # Done(0).s
    /\ ss[Done(2).s].keyPure = ss[Done(0).s].keyPure
    /\ ss[Done(2).s].versionedOptions = ss[Done(0).s].versionedOptions
    /\ Len(MigratedInOrder(Done(2))) = 2
    /\ Done(2).ret = MigratedInOrder(Done(2))[2]
    /\ Done(0).io = {}
    /\ Done(0).ret = Done(2).ret
    /\ Done(0).ret # ss[Done(0).s].defaultValue

\* C28: when two set calls on one store were both waiting for their backend
\* writes at the same time and both have completed, the store's cache holds
\* the value of the write that completed last, which the backend holds.
C28_LastWriteWins ==
    (/\ recording /\ ~sequential
     /\ NoTaskInFlight
     /\ calls = 3 /\ Len(trace) = 3 /\ Len(ss) = 1
     /\ Done(2).op = "addSyncStore" /\ Done(1).op = "set" /\ Done(0).op = "set"
     /\ Done(1).arg # Done(0).arg)
    => /\ ss[1].currentValue = Done(0).arg
       /\ Holds(ss[1].key) = Done(0).arg

\* C30: creating a store leaves every other store as it was and puts the new
\* store, holding its own default, into the handler's stores Map in place of
\* whatever was there; a change passed to the handlers then changes no store
\* that no stores Map holds under the changed key, so a store that was
\* replaced is not changed.
C30_ReplacedStoreUntouched ==
    [][/\ Len(ss') > Len(ss)
          => /\ \A s \in StoreIds : ss'[s] = ss[s]
             /\ ss'[Len(ss')].currentValue = ss'[Len(ss')].defaultValue
             /\ ss'[Len(ss')].runs = <<>>
             /\ \E r \in Registries :
                   /\ stores'[r][ss'[Len(ss')].keyPure] = Len(ss')
                   /\ \A q \in Registries, k \in AllKeys :
                         (q # r \/ k # ss'[Len(ss')].keyPure)
                         => stores'[q][k] = stores[q][k]
       /\ changes' # NoChanges
          => \A s \in StoreIds :
                (\A r \in Registries : stores[r][changes'.key] # s) => ss'[s] = ss[s]
      ]_vars

C30_Witness ==
    /\ changes # NoChanges
    /\ Len(ss) = 2
    /\ ss[1].keyPure = ss[2].keyPure
    /\ ss[1].versionedOptions = NoOptions /\ ss[2].versionedOptions = NoOptions
    /\ ss[1].syncFromExternal /\ ss[2].syncFromExternal
    /\ ~Registered(1)
    /\ \E r \in Registries : stores[r][changes.key] = 2
    /\ changes.key = ss[1].key
    /\ ss[2].currentValue = changes.newValue
    /\ ss[1].currentValue # changes.newValue
    /\ ss[1].currentValue = ss[1].defaultValue

\* cleanUp has been called in this run
CleanedUp == \E i \in 1..Len(trace) : trace[i].op = "cleanUp"

\* C21: once cleanUp() has been called on the backend, whatever its kind, no
\* step calls a callback with a change, and a further cleanUp() leaves the set
\* of callbacks the backend calls as it is.
C21_CleanUpDetaches ==
    [][CleanedUp => /\ changes' = NoChanges
                    /\ callbacks' = callbacks
      ]_vars

\* C23: when _clear() has completed, the backend holds nothing under the key
\* of any store the handler's stores Map held when _clear was called, and the
\* stores Map is empty, so that no later change reaches one of those stores.
C23_ClearAll ==
    (/\ Settled(1)
     /\ Done(0).op = "_clear")
    => /\ \A k \in AllKeys :
             Done(0).pre.stores[k] # NoStore
             => storage[ss[Done(0).pre.stores[k]].key] = Null
       /\ \A k \in AllKeys : stores[Done(0).r][k] = NoStore

\* C27: with the handlers that compare oldValue, a change passed to the
\* callbacks changes a store only if a handler holds it under the changed key
\* with syncFromExternal set and the change's oldValue is the value the store
\* held; the store then holds newValue.  For every other store the cache and
\* the subscriber calls stay as they were and no backend.set is called for it.
C27_StaleChangeIgnored ==
    [][changes' # NoChanges =>
         LET accepted == {s \in StoreIds :
                             /\ \E r \in Registries : stores[r][changes'.key] = s
                             /\ ss[s].syncFromExternal
                             /\ changes'.oldValue = ss[s].currentValue}
         IN /\ \A s \in StoreIds \ accepted : ss'[s] = ss[s]
            /\ \A s \in accepted : ss'[s].currentValue = changes'.newValue
            /\ changes'.io = {<<"set", ss[s].key>> : s \in accepted}
      ]_vars

C27_Witness ==
    /\ guard
    /\ changes # NoChanges
    /\ changes.io = {}
    /\ changes.oldValue # changes.newValue
    /\ \E s \in StoreIds :
          /\ \E r \in Registries : stores[r][changes.key] = s
          /\ ss[s].syncFromExternal
          /\ ss[s].subscribed
          /\ ss[s].currentValue # changes.oldValue
          /\ ss[s].currentValue # changes.newValue

\* C22: for a lookup store holding a record, after setItem(k, v) has
\* completed, getItem(k) returns v, getItem of every other property returns
\* its previous value, and the backend entry under the store's key holds the
\* record with property k equal to v.
C22_SetItem ==
    (/\ Settled(2) /\ objects
     /\ Done(1).op = "setItem" /\ Done(0).op = "getItem"
     /\ Done(1).s = Done(0).s)
    => /\ Done(0).arg.key = Done(1).arg.key => Done(0).ret = Done(1).arg.value
       /\ Done(0).arg.key # Done(1).arg.key
             => Done(0).ret = Done(1).before[Done(0).arg.key]
       /\ storage[Done(0).key] # Null
       /\ Parse(storage[Done(0).key])[Done(1).arg.key] = Done(1).arg.value

\* C29: a failure raised while the registry's change listener applies an
\* external change to a store (a subscriber that throws) is caught inside the
\* listener: it does not leave the backend's notification loop and does not
\* make the set() call that caused the notification fail.
C29_ListenerContained ==
    (recording /\ ~rejecting)
    => \A i \in DOMAIN trace : trace[i].op = "set" => trace[i].ret # Rejected

\* the keys of the entries of a JSON text
KeysOf(json) == {Parse(json)[n][1] : n \in 1..Len(Parse(json))}
\* the stores a completed importJson found changed when it returned
ChangedBy(e) == {s \in DOMAIN e.pre.cache : ss[s].currentValue # e.pre.cache[s]}

\* C31: importJson changes only stores registered under a key that appears in
\* the JSON: when no entry's key has a store in the handler, no store changes
\* and nothing is written to the backend; a store that is registered under no
\* key of the JSON keeps its value; importing what exportJson returned leaves
\* every store's value as it was.
C31_ImportFrame ==
    (Settled(1) /\ Done(0).op = "importJson")
    => /\ \A s \in ChangedBy(Done(0)) :
             \E r \in Registries, k \in KeysOf(Done(0).arg) : stores[r][k] = s
       /\ (\A k \in KeysOf(Done(0).arg) : stores[Done(0).r][k] = NoStore)
             => /\ ChangedBy(Done(0)) = {}
                /\ Done(0).io = {}
                /\ storage = Done(0).pre.storage
       /\ (/\ Len(trace) >= 2
           /\ Done(1).op = "exportJson" /\ Done(1).r = Done(0).r
           /\ Done(0).arg = Done(1).ret)
             => ChangedBy(Done(0)) = {}

\* an importJson has returned whose JSON had an entry without a store, which
\* was passed over, and an entry whose store took the entry's value
C31_Witness ==
    /\ Settled(1) /\ Done(0).op = "importJson"
    /\ \E k \in KeysOf(Done(0).arg) : stores[Done(0).r][k] = NoStore
    /\ \E k \in KeysOf(Done(0).arg) :
          /\ stores[Done(0).r][k] \in ChangedBy(Done(0))
          /\ Done(0).io = {<<"set", ss[stores[Done(0).r][k]].key>>}

\* C32: whenever no store call and no backend call is in flight, every ready
\* store with syncFromExternal set holds the value the backend holds under the
\* store's key, whatever the interleaving of ready, set and writes to the
\* backend made outside the store.
C32_QuiescentAgreement ==
    (NoTaskInFlight /\ echo = <<>>)
    => \A s \in StoreIds :
          (ss[s].isReady /\ ss[s].syncFromExternal)
             => ss[s].currentValue = BackendGet(storage, ss[s].key)

\* C33: after the unsubscribe handle returned by subscribe(handler) has been
\* called, the handler is not called again (until it is subscribed again),
\* also when the handle is called before the store's pull has completed.
C33_NoRunAfterUnsubscribe ==
    [][\A s \in DOMAIN ss :
          (/\ ss[s].runs # <<>>
           /\ ~ss[s].subscribed /\ ~ss'[s].subscribed)
             => (ss'[s].runs = ss[s].runs /\ ss'[s].ran = ss[s].ran)]_vars

\* C34: the seeding write of the pull never replaces a value written to the
\* store's key between the pull's backend read and the seeding write: ready()
\* overwrites no value present in the backend with defaultValue.
C34_SeedKeepsPresent ==
    [][\A t \in TaskIds :
          (/\ tasks[t] # Idle /\ tasks[t].pc = "seed"
           /\ tasks'[t] # Idle /\ tasks'[t].pc = "updated")
             => \/ storage[ss[tasks[t].s].key] = Null
                \/ storage'[ss[tasks[t].s].key] = storage[ss[tasks[t].s].key]]_vars


\* the step of task t is the backend.remove(oldKey) of a migration
RemovesOld(t) ==
    /\ tasks[t] # Idle
    /\ tasks[t].pc = "set_done"
    /\ tasks'[t] # Idle
    /\ tasks'[t].pc = "removed"

\* task t is inside a migration entry whose old key held a value
MigratingEntry(t) ==
    /\ tasks[t] # Idle
    /\ tasks[t].pc \in {"old_got", "mig_write", "set_done"}
    /\ tasks[t].tmp # Undefined

\* C35: a migration removes an old key only when the backend holds the
\* migrated value under the store's effective key, and in no state of a
\* migration (a rejected backend call in its middle included) are the
\* old entry and the entry under the effective key both missing
C35_RemoveAfterWrite ==
    [][\A t \in TaskIds :
        /\ RemovesOld(t) =>
             Holds(ss[tasks[t].s].key) =
                migrate(ss[tasks[t].s].versionedOptions.migrations[tasks[t].i][2],
                        tasks[t].tmp)
        /\ MigratingEntry(t) =>
             \/ storage[OldKeyOf(tasks[t].s, tasks[t].i)] # Null
             \/ storage[ss[tasks[t].s].key] # Null
        /\ (MigratingEntry(t) /\ tasks'[t] = Idle) =>
             \/ storage'[OldKeyOf(tasks[t].s, tasks[t].i)] # Null
             \/ storage'[ss[tasks[t].s].key] # Null]_vars


\* C36: a change notification for a key other than a store's effective key
\* leaves that store's currentValue as it was
C36_OtherKeyIgnored ==
    [][\A s \in DOMAIN ss :
        (changes'.key # <<>> /\ changes'.key # ss[s].key)
        => ss'[s].currentValue = ss[s].currentValue]_vars

\* C37: the currentValue of a store is never the absent value, and the
\* absent value is never handed to a subscriber
C37_NeverUndefined ==
    \A s \in DOMAIN ss :
        /\ ss[s].currentValue # Undefined
        /\ \A n \in 1..Len(ss[s].runs) : ss[s].runs[n] # Undefined

\* C38: on a lookup store, after setItem(k, v) and then reset() have
\* completed, getItem(k) returns the property of the default record given at
\* creation, and the backend holds that default record under the store's key
C38_DefaultUntouched ==
    (/\ Settled(3) /\ objects
     /\ Done(2).op = "setItem" /\ Done(1).op = "reset" /\ Done(0).op = "getItem"
     /\ Done(2).s = Done(0).s /\ Done(1).s = Done(0).s
     /\ Done(2).arg.key = Done(0).arg.key)
    => \E d \in RecordDefaults :
          /\ Done(0).ret = d[Done(0).arg.key]
          /\ storage[Done(0).key] # Null
          /\ Parse(storage[Done(0).key]) = d

\* the last call of the application is a set or reset of a ready store, which
\* holds the value of the call, and nothing else is pending
SingleSet ==
    /\ guard
    /\ calls = limit
    /\ echo = <<>>
    /\ \E t \in TaskIds :
          /\ tasks[t] # Idle
          /\ tasks[t].op \in {"set", "reset"}
          /\ tasks[t].pc = "write"
          /\ ss[tasks[t].s].isReady
          /\ ss[tasks[t].s].currentValue = tasks[t].arg
          /\ \A u \in TaskIds \ {t} : tasks[u] = Idle

\* no call is in flight and no backend.set of a listener is waiting
Quiescent == NoTaskInFlight /\ echo = <<>>

\* C39: with the handlers that compare oldValue, on storageLegacy, a single
\* set() or reset() on a ready store is followed by a state in which no
\* backend write is pending any more
C39_Quiescence == SingleSet ~> Quiescent
====
